---- MODULE Spec2Model ----
(***************************************************************************)
(* LyX hotkey plugin: the key-sequence engine (src/src/hotkeyManager.js)   *)
(* and the bind-file parser (src/src/parser.js) that compiles its table.   *)
(*                                                                         *)
(* A JavaScript string is modelled as the sequence of its characters, each *)
(* a one-character TLA+ string (a non-ASCII character is written by its    *)
(* code point, "U+03B1"), so that join, split, startsWith and replace are  *)
(* computed as the code computes them.  A Map is the sequence of its       *)
(* entries in insertion order.                                             *)
(***************************************************************************)
EXTENDS Integers, Sequences, FiniteSets, TLC

VARIABLES
    bindings,         \* HotkeyManager.bindings: Map key string -> binding
    currentSequence,  \* HotkeyManager.currentSequence: array of key strings
    sequenceTimeout,  \* HotkeyManager.sequenceTimeout (ms)
    timeoutId,        \* HotkeyManager.timeoutId; 0 models null
    enabled,          \* HotkeyManager.enabled
    conflicts,        \* HotkeyManager.conflicts: Set of description strings
    timers,           \* the host scheduler: outstanding setTimeout callbacks
    nextTimerId,      \* the id the next setTimeout call returns
    listening,        \* the keydown listener is registered on the document
    settingsPc,       \* position of the constructor's async loadSettings()
    getResult,        \* what its chrome.storage.sync.get resolves to
    store,            \* chrome.storage.sync: the two keys the engine writes
    emitted,          \* executeAction calls made by the latest handler run
    handled,          \* the latest handler called preventDefault/stopPropagation
    op,               \* observation: the operation that ran last
    fed,              \* observation: tokens of the key presses accepted in a row
                      \*   since the engine was last Idle after another operation
    reloaded,         \* observation: loadBindings ran while the sequence was pending
    bindingsData,     \* the configuration text handed to LyXParser.parse
    parserBindings,   \* LyXParser.bindings: Map key string -> binding
    parserLog,        \* the warnings LyXParser wrote to its logger, in order
    storedBindings,   \* chrome.storage.sync: the key loadedBindings
    changes,          \* chrome.storage.onChanged events not yet delivered
    extensionState,   \* BackgroundController.extensionState
    badgeText,        \* the text last given to chrome.action.setBadgeText
    tasks,            \* the background's async operations awaiting the storage
    isActive,         \* LyXHotkeyPlugin.isActive
    pluginPc,         \* position of the plugin's async initialize()
    settings,         \* what the chrome.storage.sync.get of initialize resolves to
    pages,            \* the content scripts of several pages, one engine each
    changeMade        \* the settings page has written the store

parserVars == <<bindingsData, parserBindings, parserLog>>

\* the extension around the engine and the parser
extensionVars == <<storedBindings, changes, extensionState, badgeText, tasks,
                   isActive, pluginPc, settings, pages, changeMade>>

vars == <<bindings, currentSequence, sequenceTimeout, timeoutId, enabled,
          conflicts, timers, nextTimerId, listening, settingsPc, getResult,
          store, emitted, handled, op, fed, reloaded, bindingsData, parserBindings,
          parserLog, storedBindings, changes, extensionState, badgeText, tasks,
          isActive, pluginPc, settings, pages, changeMade>>

----------------------------------------------------------------------------
(* Bounds of the model *)

\* longest configuration text handed to parse(), in lines
MaxLines == 3

\* setTimeout calls made in one run
MaxTimers == 2

\* async operations of the background controller in flight at a time
MaxTasks == 2

\* storage.onChanged events in flight at a time
MaxChanges == 1

\* pages that share one settings store
MaxPages == 2

\* storage-change events waiting in the queue of one page
MaxInbox == 3

----------------------------------------------------------------------------
(* JavaScript string and array primitives *)

SP == <<" ">>

StartsWith(s, p) == Len(p) <= Len(s) /\ SubSeq(s, 1, Len(p)) = p

Includes(s, p) == \E i \in 1..(Len(s) - Len(p) + 1) : SubSeq(s, i, i + Len(p) - 1) = p

\* Array.prototype.join
RECURSIVE Join(_, _)
Join(parts, sep) ==
    IF parts = <<>> THEN <<>>
    ELSE IF Len(parts) = 1 THEN parts[1]
    ELSE parts[1] \o sep \o Join(Tail(parts), sep)

\* String.prototype.indexOf, counted from 1; 0 when pat does not occur
IndexOf(s, pat) ==
    LET at == { i \in 1..(Len(s) - Len(pat) + 1) : SubSeq(s, i, i + Len(pat) - 1) = pat }
    IN  IF at = {} THEN 0 ELSE CHOOSE i \in at : \A j \in at : i <= j

\* String.prototype.split with a non-empty separator
RECURSIVE Split(_, _)

\* split, given the index i of the first separator (0: none)
SplitAt(s, sep, i) ==
    IF i = 0 THEN <<s>>
    ELSE <<SubSeq(s, 1, i - 1)>> \o Split(SubSeq(s, i + Len(sep), Len(s)), sep)

Split(s, sep) == SplitAt(s, sep, IndexOf(s, sep))

\* String.prototype.replace(/pat/g, rep): every non-overlapping occurrence, left to right
RECURSIVE ReplaceAll(_, _, _)
ReplaceAll(s, pat, rep) ==
    IF Len(s) < Len(pat) THEN s
    ELSE IF SubSeq(s, 1, Len(pat)) = pat
         THEN rep \o ReplaceAll(SubSeq(s, Len(pat) + 1, Len(s)), pat, rep)
         ELSE <<Head(s)>> \o ReplaceAll(Tail(s), pat, rep)

\* String.prototype.replace('pat', rep): the first occurrence only
RECURSIVE ReplaceFirst(_, _, _)
ReplaceFirst(s, pat, rep) ==
    IF Len(s) < Len(pat) THEN s
    ELSE IF SubSeq(s, 1, Len(pat)) = pat
         THEN rep \o SubSeq(s, Len(pat) + 1, Len(s))
         ELSE <<Head(s)>> \o ReplaceFirst(Tail(s), pat, rep)

\* the white space of the model: space, tab and carriage return (the line feed
\* is the separator parse() splits on)
WhiteSpace == {" ", "\t", "\r"}

RECURSIVE TrimStart(_)
TrimStart(s) == IF s # <<>> /\ Head(s) \in WhiteSpace THEN TrimStart(Tail(s)) ELSE s

RECURSIVE TrimEnd(_)
TrimEnd(s) == IF s # <<>> /\ s[Len(s)] \in WhiteSpace THEN TrimEnd(SubSeq(s, 1, Len(s) - 1)) ELSE s

\* String.prototype.trim
Trim(s) == TrimEnd(TrimStart(s))

----------------------------------------------------------------------------
(* Map: entries in insertion order, keys unique *)

MapKeys(m) == [i \in 1..Len(m) |-> m[i].key]

MapHas(m, k) == \E i \in 1..Len(m) : m[i].key = k

\* Map.prototype.get; only called here where the key is present
MapGet(m, k) == m[CHOOSE i \in 1..Len(m) : m[i].key = k].value

\* mutant: a key that is already present keeps its first value
MapSet_keepsFirst(m, k, v) ==
    IF MapHas(m, k) THEN m
    ELSE Append(m, [key |-> k, value |-> v])

\* Map.prototype.set: an existing key keeps its position
MapSet(m, k, v) ==
    IF MapHas(m, k)
    THEN [i \in 1..Len(m) |-> IF m[i].key = k THEN [key |-> k, value |-> v] ELSE m[i]]
    ELSE Append(m, [key |-> k, value |-> v])

----------------------------------------------------------------------------
(* LyXParser (src/src/parser.js) *)

\* normalizeKeySequence: the chain of global replacements, in source order
normalizeKeySequence(keySequence) ==
    LET n1  == ReplaceAll(keySequence, <<"M","-">>, <<"A","l","t","+">>)
        n2  == ReplaceAll(n1, <<"C","-">>, <<"C","t","r","l","+">>)
        n3  == ReplaceAll(n2, <<"S","-">>, <<"S","h","i","f","t","+">>)
        n4  == ReplaceAll(n3, <<"A","-">>, <<"A","l","t","+">>)
        k1  == ReplaceAll(n4, <<"s","p","a","c","e">>, <<"S","p","a","c","e">>)
        k2  == ReplaceAll(k1, <<"R","e","t","u","r","n">>, <<"E","n","t","e","r">>)
        k3  == ReplaceAll(k2, <<"B","a","c","k","S","p","a","c","e">>, <<"B","a","c","k","s","p","a","c","e">>)
        k4  == ReplaceAll(k3, <<"D","e","l","e","t","e">>, <<"D","e","l","e","t","e">>)
        k5  == ReplaceAll(k4, <<"T","a","b">>, <<"T","a","b">>)
        k6  == ReplaceAll(k5, <<"E","s","c","a","p","e">>, <<"E","s","c","a","p","e">>)
        k7  == ReplaceAll(k6, <<"U","p">>, <<"A","r","r","o","w","U","p">>)
        k8  == ReplaceAll(k7, <<"D","o","w","n">>, <<"A","r","r","o","w","D","o","w","n">>)
        k9  == ReplaceAll(k8, <<"L","e","f","t">>, <<"A","r","r","o","w","L","e","f","t">>)
        k10 == ReplaceAll(k9, <<"R","i","g","h","t">>, <<"A","r","r","o","w","R","i","g","h","t">>)
        k11 == ReplaceAll(k10, <<"P","r","i","o","r">>, <<"P","a","g","e","U","p">>)
        k12 == ReplaceAll(k11, <<"N","e","x","t">>, <<"P","a","g","e","D","o","w","n">>)
        k13 == ReplaceAll(k12, <<"H","o","m","e">>, <<"H","o","m","e">>)
        k14 == ReplaceAll(k13, <<"E","n","d">>, <<"E","n","d">>)
        e1  == ReplaceAll(k14, <<"~","S","-">>, <<>>)
        e2  == ReplaceAll(e1, <<"~","C","-">>, <<>>)
        e3  == ReplaceAll(e2, <<"~","M","-">>, <<>>)
    IN  e3

\* the symbolMap object literal of convertLaTeXSymbol
symbolMap ==
    << [key |-> <<"\\","a","l","p","h","a">>,   value |-> <<"U+03B1">>],
       [key |-> <<"\\","b","e","t","a">>,    value |-> <<"U+03B2">>],
       [key |-> <<"\\","g","a","m","m","a">>,   value |-> <<"U+03B3">>],
       [key |-> <<"\\","d","e","l","t","a">>,   value |-> <<"U+03B4">>],
       [key |-> <<"\\","e","p","s","i","l","o","n">>, value |-> <<"U+03B5">>],
       [key |-> <<"\\","z","e","t","a">>,    value |-> <<"U+03B6">>],
       [key |-> <<"\\","e","t","a">>,     value |-> <<"U+03B7">>],
       [key |-> <<"\\","t","h","e","t","a">>,   value |-> <<"U+03B8">>],
       [key |-> <<"\\","i","o","t","a">>,    value |-> <<"U+03B9">>],
       [key |-> <<"\\","k","a","p","p","a">>,   value |-> <<"U+03BA">>],
       [key |-> <<"\\","l","a","m","b","d","a">>,  value |-> <<"U+03BB">>],
       [key |-> <<"\\","m","u">>,      value |-> <<"U+03BC">>],
       [key |-> <<"\\","n","u">>,      value |-> <<"U+03BD">>],
       [key |-> <<"\\","x","i">>,      value |-> <<"U+03BE">>],
       [key |-> <<"\\","p","i">>,      value |-> <<"U+03C0">>],
       [key |-> <<"\\","r","h","o">>,     value |-> <<"U+03C1">>],
       [key |-> <<"\\","s","i","g","m","a">>,   value |-> <<"U+03C3">>],
       [key |-> <<"\\","t","a","u">>,     value |-> <<"U+03C4">>],
       [key |-> <<"\\","u","p","s","i","l","o","n">>, value |-> <<"U+03C5">>],
       [key |-> <<"\\","p","h","i">>,     value |-> <<"U+03C6">>],
       [key |-> <<"\\","c","h","i">>,     value |-> <<"U+03C7">>],
       [key |-> <<"\\","p","s","i">>,     value |-> <<"U+03C8">>],
       [key |-> <<"\\","o","m","e","g","a">>,   value |-> <<"U+03C9">>],
       [key |-> <<"\\","s","u","m">>,     value |-> <<"U+2211">>],
       [key |-> <<"\\","i","n","t">>,     value |-> <<"U+222B">>],
       [key |-> <<"\\","i","n","f","t","y">>,   value |-> <<"U+221E">>],
       [key |-> <<"\\","p","m">>,      value |-> <<"U+00B1">>],
       [key |-> <<"\\","n","e","q">>,     value |-> <<"U+2260">>],
       [key |-> <<"\\","l","e","q">>,     value |-> <<"U+2264">>],
       [key |-> <<"\\","g","e","q">>,     value |-> <<"U+2265">>] >>

\* mutant: the symbol table is not consulted
convertLaTeXSymbol_noTable(symbol) ==
    IF symbol = <<"\\","f","r","a","c">> THEN <<"\\","f","r","a","c","{","}","{","}">>
    ELSE IF symbol = <<"\\","s","q","r","t">> THEN <<"\\","s","q","r","t","{","}">>
    ELSE symbol

\* the property names the symbolMap object literal inherits from
\* Object.prototype
ObjectPrototypeNames ==
    { <<"c","o","n","s","t","r","u","c","t","o","r">>,
      <<"t","o","S","t","r","i","n","g">>,
      <<"t","o","L","o","c","a","l","e","S","t","r","i","n","g">>,
      <<"v","a","l","u","e","O","f">>,
      <<"h","a","s","O","w","n","P","r","o","p","e","r","t","y">>,
      <<"i","s","P","r","o","t","o","t","y","p","e","O","f">>,
      <<"p","r","o","p","e","r","t","y","I","s","E","n","u","m","e","r","a","b","l","e">>,
      <<"_","_","p","r","o","t","o","_","_">>,
      <<"_","_","d","e","f","i","n","e","G","e","t","t","e","r","_","_">>,
      <<"_","_","d","e","f","i","n","e","S","e","t","t","e","r","_","_">>,
      <<"_","_","l","o","o","k","u","p","G","e","t","t","e","r","_","_">>,
      <<"_","_","l","o","o","k","u","p","S","e","t","t","e","r","_","_">> }

\* the value symbolMap[name] has for an inherited name: a function (an object
\* for __proto__), truthy and not a string
InheritedMember == <<"[member of Object.prototype]">>

\* convertLaTeXSymbol: symbolMap[symbol] || symbol looks the symbol up among the
\* own and the inherited properties of symbolMap
convertLaTeXSymbol(symbol) ==
    IF symbol = <<"\\","f","r","a","c">> THEN <<"\\","f","r","a","c","{","}","{","}">>
    ELSE IF symbol = <<"\\","s","q","r","t">> THEN <<"\\","s","q","r","t","{","}">>
    ELSE IF MapHas(symbolMap, symbol) THEN MapGet(symbolMap, symbol)
    ELSE IF symbol \in ObjectPrototypeNames THEN InheritedMember
    ELSE symbol

\* extractInsertText: everything after the first space-separated word
extractInsertText(command) ==
    LET parts == Split(command, SP)
    IN  Join(SubSeq(parts, 2, Len(parts)), SP)

handleQuoteInsert(command) ==
    IF Includes(command, <<"i","n","n","e","r">>) THEN <<"\"">>
    ELSE IF Includes(command, <<"o","u","t","e","r">>) THEN <<"\"">>
    ELSE <<"\"">>

handleSpecialChar(command) ==
    IF Includes(command, <<"h","y","p","h","e","n","a","t","i","o","n">>) THEN <<"U+00AD">>
    ELSE IF Includes(command, <<"n","o","b","r","e","a","k","d","a","s","h">>) THEN <<"U+2011">>
    ELSE IF Includes(command, <<"l","i","g","a","t","u","r","e","-","b","r","e","a","k">>) THEN <<"U+200C">>
    ELSE IF Includes(command, <<"e","n","d","-","o","f","-","s","e","n","t","e","n","c","e">>) THEN <<".">>
    ELSE IF Includes(command, <<"d","o","t","s">>) THEN <<"U+2026">>
    ELSE <<>>

\* mutant: a command no rule matches is inserted as text
parseCommand_unknownInserted(command) ==
    IF StartsWith(command, <<"m","a","t","h","-","i","n","s","e","r","t">>)
    THEN [type |-> "insert",
          text |-> convertLaTeXSymbol(Trim(ReplaceFirst(command, <<"m","a","t","h","-","i","n","s","e","r","t"," ">>, <<>>)))]
    ELSE IF Includes(command, <<"i","n","s","e","r","t">>)
    THEN [type |-> "insert", text |-> extractInsertText(command)]
    ELSE [type |-> "insert", text |-> command]

\* parseCommand: the tests in source order, first match wins
parseCommand(command) ==
    IF StartsWith(command, <<"m","a","t","h","-","i","n","s","e","r","t">>)
    THEN [type |-> "insert",
          text |-> convertLaTeXSymbol(Trim(ReplaceFirst(command, <<"m","a","t","h","-","i","n","s","e","r","t"," ">>, <<>>)))]
    ELSE IF Includes(command, <<"i","n","s","e","r","t">>)
    THEN [type |-> "insert", text |-> extractInsertText(command)]
    ELSE IF StartsWith(command, <<"s","e","l","f","-","i","n","s","e","r","t">>)
    THEN [type |-> "insert", text |-> Trim(ReplaceFirst(command, <<"s","e","l","f","-","i","n","s","e","r","t"," ">>, <<>>))]
    ELSE IF StartsWith(command, <<"q","u","o","t","e","-","i","n","s","e","r","t">>)
    THEN [type |-> "insert", text |-> handleQuoteInsert(command)]
    ELSE IF StartsWith(command, <<"s","p","e","c","i","a","l","c","h","a","r","-","i","n","s","e","r","t">>)
    THEN [type |-> "insert", text |-> handleSpecialChar(command)]
    ELSE [type |-> "command", command |-> command]

\* \s+ of bindRegex: the index of the first character of s at or after i that
\* is not white space
RECURSIVE SkipSpace(_, _)
SkipSpace(s, i) == IF i <= Len(s) /\ s[i] \in WhiteSpace THEN SkipSpace(s, i + 1) ELSE i

\* [^"]+ of bindRegex: the index of the first double quote of s at or after i,
\* Len(s) + 1 when there is none
RECURSIVE NextQuote(_, _)
NextQuote(s, i) == IF i <= Len(s) /\ s[i] # "\"" THEN NextQuote(s, i + 1) ELSE i

\* "([^"]+)" of bindRegex tried at the quote at index i, whose next quote is
\* at index close: the captured field and the index after the closing quote,
\* or <<>> when it does not match there
QuotedSpan(s, i, close) ==
    IF i <= Len(s) /\ s[i] = "\"" /\ close <= Len(s) /\ close > i + 1
    THEN <<SubSeq(s, i + 1, close - 1), close + 1>>
    ELSE <<>>

QuotedAt(s, i) == QuotedSpan(s, i, NextQuote(s, i + 1))

\* bindRegex from its second quoted field on: first is the match of the first
\* field, gap the index after the white space that follows it
bindRegexSecond(s, first, gap, second) ==
    IF gap > first[2] /\ second # <<>> THEN <<first[1], second[1]>> ELSE <<>>

\* bindRegex from its first quoted field on: gap is the index after the white
\* space that follows the keyword at index i
bindRegexFirst(s, i, gap, first) ==
    IF gap > i + 5 /\ first # <<>>
    THEN bindRegexSecond(s, first, SkipSpace(s, first[2]),
                         QuotedAt(s, SkipSpace(s, first[2])))
    ELSE <<>>

\* bindRegex tried at index i of s: the two captured groups, or <<>>
bindRegexAt(s, i) ==
    IF i + 4 <= Len(s) /\ SubSeq(s, i, i + 4) = <<"\\","b","i","n","d">>
    THEN bindRegexFirst(s, i, SkipSpace(s, i + 5), QuotedAt(s, SkipSpace(s, i + 5)))
    ELSE <<>>

\* the leftmost of the indices where bindRegex matches
bindRegexLeftmost(line, at) ==
    IF at = {} THEN <<>>
    ELSE bindRegexAt(line, CHOOSE i \in at : \A j \in at : i <= j)

\* line.match(bindRegex): the regex is not anchored, the leftmost match wins;
\* <<>> models null
bindRegex(line) ==
    bindRegexLeftmost(line, { i \in 1..Len(line) : bindRegexAt(line, i) # <<>> })

\* the object parseBindLine returns for a match; <<>> models the null it
\* returns for a line bindRegex does not match, <<binding>> the binding
parseBindLineMatch(match) ==
    IF match = <<>> THEN <<>>
    ELSE << [keySequence         |-> normalizeKeySequence(match[1]),
             originalKeySequence |-> match[1],
             command             |-> match[2],
             action              |-> parseCommand(match[2])] >>

parseBindLine(line) == parseBindLineMatch(bindRegex(line))

\* mutant: a line parseBindLine rejects discards the bindings read so far
parseSet_clearsOnNull(map, binding) ==
    IF binding = <<>> THEN <<>>
    ELSE MapSet(map, binding[1].keySequence, binding[1])

\* parse: this.bindings.set for the binding parseBindLine returned, if any
parseSet(map, binding) ==
    IF binding = <<>> THEN map
    ELSE MapSet(map, binding[1].keySequence, binding[1])

\* parse: the body of the loop for one trimmed line
parseLine(map, trimmed) ==
    IF trimmed = <<>> \/ StartsWith(trimmed, <<"#">>) THEN map
    ELSE IF StartsWith(trimmed, <<"\\","b","i","n","d">>)
    THEN parseSet(map, parseBindLine(trimmed))
    ELSE map

\* parse: the bindings map after the loop over the lines
RECURSIVE parseLines(_, _)
parseLines(lines, map) ==
    IF lines = <<>> THEN map
    ELSE parseLines(Tail(lines), parseLine(map, Trim(Head(lines))))

\* parse: what the loop writes to the logger for one trimmed line;
\* parseBindLine warns about the line it rejects, and the catch branch of
\* parse is never entered because nothing parseBindLine calls throws on a
\* string
parseLineWarnings(trimmed) ==
    IF /\ trimmed # <<>>
       /\ ~StartsWith(trimmed, <<"#">>)
       /\ StartsWith(trimmed, <<"\\","b","i","n","d">>)
       /\ parseBindLine(trimmed) = <<>>
    THEN << [level |-> "warn", message |-> <<"I","n","v","a","l","i","d"," ","b","i","n","d"," ","l","i","n","e"," ","f","o","r","m","a","t",":"," ">> \o trimmed] >>
    ELSE <<>>

\* parse: the warnings written during the loop, in order
RECURSIVE parseWarnings(_)
parseWarnings(lines) ==
    IF lines = <<>> THEN <<>>
    ELSE parseLineWarnings(Trim(Head(lines))) \o parseWarnings(Tail(lines))

\* the line feed content.split('\n') splits on
NL == <<"\n">>

parse(content) == parseLines(Split(content, NL), <<>>)

\* a plain object as the list of its own enumerable properties, in the order
\* for...in and Object.entries enumerate them: the array-index keys first, in
\* ascending numeric order, then the other keys in the order of their creation
DecimalDigits == <<"0","1","2","3","4","5","6","7","8","9">>

IsDecimalDigit(char) == \E d \in 1..10 : DecimalDigits[d] = char

\* the key is the canonical decimal form of an array index (keys of at most
\* nine digits; the tables of the model hold no longer digit string)
IsArrayIndex(key) ==
    /\ Len(key) \in 1..9
    /\ \A i \in 1..Len(key) : IsDecimalDigit(key[i])
    /\ Len(key) = 1 \/ key[1] # "0"

RECURSIVE IndexValue(_)
IndexValue(key) ==
    IF key = <<>> THEN 0
    ELSE 10 * IndexValue(SubSeq(key, 1, Len(key) - 1))
         + (CHOOSE d \in 0..9 : DecimalDigits[d + 1] = key[Len(key)])

\* the array-index properties of the object with a smaller index
IndexKeysBelow(obj, key) ==
    { i \in 1..Len(obj) :
        IsArrayIndex(obj[i].key) /\ IndexValue(obj[i].key) < IndexValue(key) }

InsertAt(obj, position, entry) ==
    SubSeq(obj, 1, position) \o <<entry>> \o SubSeq(obj, position + 1, Len(obj))

ProtoKey == <<"_","_","p","r","o","t","o","_","_">>

\* exported[key] = value on an object made by {}, value being a binding
\* object: the key __proto__ reaches the accessor of Object.prototype, which
\* makes the binding the prototype of the object and creates no property
ObjectSet(obj, key, value) ==
    IF key = ProtoKey THEN obj
    ELSE IF MapHas(obj, key)
    THEN [i \in 1..Len(obj) |-> IF obj[i].key = key THEN [key |-> key, value |-> value] ELSE obj[i]]
    ELSE IF IsArrayIndex(key)
    THEN InsertAt(obj, Cardinality(IndexKeysBelow(obj, key)), [key |-> key, value |-> value])
    ELSE Append(obj, [key |-> key, value |-> value])

RECURSIVE exportEntries(_, _)
exportEntries(entries, exported) ==
    IF entries = <<>> THEN exported
    ELSE exportEntries(Tail(entries), ObjectSet(exported, Head(entries).key, Head(entries).value))

\* exportBindings: the entries of the Map assigned, in order, to a new object
exportBindings(map) == exportEntries(map, <<>>)

RECURSIVE importEntries(_, _)
importEntries(entries, map) ==
    IF entries = <<>> THEN map
    ELSE importEntries(Tail(entries), MapSet(map, Head(entries).key, Head(entries).value))

\* importBindings: the Map cleared, then filled from Object.entries(exported)
importBindings(exported) == importEntries(exported, <<>>)

----------------------------------------------------------------------------
(* Inputs of the model *)

\* the configuration file the texts are cut from
ConfigFile ==
    << <<"\\","b","i","n","d"," ","\"","g","\""," ","\"","b","u","f","f","e","r","-","n","e","w","\"">>,
       <<"\\","b","i","n","d"," ","\"","M","-","m"," ","f","\""," ","\"","m","a","t","h","-","i","n","s","e","r","t"," ","\\","f","r","a","c","\"">>,
       <<"\\","b","i","n","d"," ","\"","M","-","m"," ","g"," ","a","\""," ","\"","m","a","t","h","-","i","n","s","e","r","t"," ","\\","a","l","p","h","a","\"">>,
       <<"\\","b","i","n","d"," ","\"","M","-","m"," ","g","\""," ","\"","m","a","t","h","-","i","n","s","e","r","t"," ","\\","g","a","m","m","a","\"">> >>

\* configuration texts: every run of at most MaxLines consecutive lines of the file
ConfigTexts ==
    { Join(SubSeq(ConfigFile, first, last), NL) :
        <<first, last>> \in { p \in (1..Len(ConfigFile)) \X (0..Len(ConfigFile)) :
                               p[1] - 1 <= p[2] /\ p[2] - p[1] + 1 <= MaxLines } }

\* a configuration file with a sequence whose last step carries Shift
ModifierFile ==
    << <<"\\","b","i","n","d"," ","\"","M","-","m"," ","g"," ","S","-","D","\""," ","\"","m","a","t","h","-","i","n","s","e","r","t"," ","\\","D","e","l","t","a","\"">>,
       <<"\\","b","i","n","d"," ","\"","M","-","m"," ","g"," ","a","\""," ","\"","m","a","t","h","-","i","n","s","e","r","t"," ","\\","a","l","p","h","a","\"">> >>

\* its first line, and both lines in either order
ModifierTexts ==
    { Join(SubSeq(ModifierFile, 1, last), NL) : last \in 1..Len(ModifierFile) }
    \cup { Join(<<ModifierFile[2], ModifierFile[1]>>, NL) }

\* event targets: a <span> inside a contentEditable <div>, and the <body>
Targets ==
    { [tagName |-> "SPAN", contentEditable |-> "inherit", ancestors |-> <<"true", "inherit">>],
      [tagName |-> "BODY", contentEditable |-> "inherit", ancestors |-> <<"inherit">>] }

\* key presses: Alt+m, Ctrl+g, g, a, f
KeyPresses ==
    { [ctrlKey |-> FALSE, altKey |-> TRUE,  shiftKey |-> FALSE, metaKey |-> FALSE, key |-> <<"m">>],
      [ctrlKey |-> TRUE,  altKey |-> FALSE, shiftKey |-> FALSE, metaKey |-> FALSE, key |-> <<"g">>],
      [ctrlKey |-> FALSE, altKey |-> FALSE, shiftKey |-> FALSE, metaKey |-> FALSE, key |-> <<"g">>],
      [ctrlKey |-> FALSE, altKey |-> FALSE, shiftKey |-> FALSE, metaKey |-> FALSE, key |-> <<"a">>],
      [ctrlKey |-> FALSE, altKey |-> FALSE, shiftKey |-> FALSE, metaKey |-> FALSE, key |-> <<"f">>] }

Events ==
    { [ctrlKey |-> k.ctrlKey, altKey |-> k.altKey, shiftKey |-> k.shiftKey,
       metaKey |-> k.metaKey, key |-> k.key, target |-> t] : k \in KeyPresses, t \in Targets }

\* key presses around a Shift step: Alt+m, g, a, D with Shift held, the Shift,
\* Alt, Control and Meta keys themselves (each reported with its own flag set),
\* D and d with the flag of Shift contradicting the case (Caps Lock), the space
\* bar, Enter, and x with the four modifiers held
ModifierKeyPresses ==
    { [ctrlKey |-> FALSE, altKey |-> TRUE,  shiftKey |-> FALSE, metaKey |-> FALSE, key |-> <<"m">>],
      [ctrlKey |-> FALSE, altKey |-> FALSE, shiftKey |-> FALSE, metaKey |-> FALSE, key |-> <<"g">>],
      [ctrlKey |-> FALSE, altKey |-> FALSE, shiftKey |-> FALSE, metaKey |-> FALSE, key |-> <<"a">>],
      [ctrlKey |-> FALSE, altKey |-> FALSE, shiftKey |-> TRUE,  metaKey |-> FALSE, key |-> <<"D">>],
      [ctrlKey |-> FALSE, altKey |-> FALSE, shiftKey |-> TRUE,  metaKey |-> FALSE, key |-> <<"S","h","i","f","t">>],
      [ctrlKey |-> FALSE, altKey |-> TRUE,  shiftKey |-> FALSE, metaKey |-> FALSE, key |-> <<"A","l","t">>],
      [ctrlKey |-> TRUE,  altKey |-> FALSE, shiftKey |-> FALSE, metaKey |-> FALSE, key |-> <<"C","o","n","t","r","o","l">>],
      [ctrlKey |-> FALSE, altKey |-> FALSE, shiftKey |-> FALSE, metaKey |-> TRUE,  key |-> <<"M","e","t","a">>],
      [ctrlKey |-> FALSE, altKey |-> FALSE, shiftKey |-> FALSE, metaKey |-> FALSE, key |-> <<"D">>],
      [ctrlKey |-> FALSE, altKey |-> FALSE, shiftKey |-> TRUE,  metaKey |-> FALSE, key |-> <<"d">>],
      [ctrlKey |-> FALSE, altKey |-> FALSE, shiftKey |-> FALSE, metaKey |-> FALSE, key |-> <<" ">>],
      [ctrlKey |-> FALSE, altKey |-> FALSE, shiftKey |-> FALSE, metaKey |-> FALSE, key |-> <<"E","n","t","e","r">>],
      [ctrlKey |-> TRUE,  altKey |-> TRUE,  shiftKey |-> TRUE,  metaKey |-> TRUE,  key |-> <<"X">>] }

ModifierEvents ==
    { [ctrlKey |-> k.ctrlKey, altKey |-> k.altKey, shiftKey |-> k.shiftKey,
       metaKey |-> k.metaKey, key |-> k.key, target |-> t] : k \in ModifierKeyPresses, t \in Targets }

\* values passed to setSequenceTimeout
TimeoutInputs == {100, 9000}

\* contents of chrome.storage.sync when the engine is constructed
\* (sequenceTimeout 0 and hotkeyEnabled "absent": the key is not stored);
\* the store is also written, without any range test, by the settings page
\* through updateSettings and by the settings import of background.js
StoredSettings ==
    { [sequenceTimeout |-> 0,    hotkeyEnabled |-> "absent"],
      [sequenceTimeout |-> 9000, hotkeyEnabled |-> "false"] }

----------------------------------------------------------------------------
(* HotkeyManager (src/src/hotkeyManager.js) *)

UpperCase == <<"A","B","C","D","E","F","G","H","I","J","K","L","M","N","O","P","Q","R","S","T","U","V","W","X","Y","Z">>
LowerCase == <<"a","b","c","d","e","f","g","h","i","j","k","l","m","n","o","p","q","r","s","t","u","v","w","x","y","z">>

IsUpper(c) == \E i \in 1..26 : UpperCase[i] = c
IsLower(c) == \E i \in 1..26 : LowerCase[i] = c

\* String.prototype.toLowerCase on one character
ToLower(c) == IF IsUpper(c) THEN LowerCase[CHOOSE i \in 1..26 : UpperCase[i] = c] ELSE c

\* mutant: every single-character key is folded to lowercase
eventToKeyString_foldsCase(event) ==
    LET mods == (IF event.ctrlKey  THEN << <<"C","t","r","l">> >>  ELSE <<>>) \o
                (IF event.altKey   THEN << <<"A","l","t">> >>   ELSE <<>>) \o
                (IF event.shiftKey THEN << <<"S","h","i","f","t">> >> ELSE <<>>) \o
                (IF event.metaKey  THEN << <<"M","e","t","a">> >>  ELSE <<>>)
        key0 == IF event.key = SP THEN <<"S","p","a","c","e">> ELSE event.key
        key  == IF Len(key0) = 1 THEN <<ToLower(key0[1])>> ELSE key0
    IN  Join(Append(mods, key), <<"+">>)

\* eventToKeyString
eventToKeyString(event) ==
    LET mods == (IF event.ctrlKey  THEN << <<"C","t","r","l">> >>  ELSE <<>>) \o
                (IF event.altKey   THEN << <<"A","l","t">> >>   ELSE <<>>) \o
                (IF event.shiftKey THEN << <<"S","h","i","f","t">> >> ELSE <<>>) \o
                (IF event.metaKey  THEN << <<"M","e","t","a">> >>  ELSE <<>>)
        key0 == IF event.key = SP THEN <<"S","p","a","c","e">> ELSE event.key
        key  == IF Len(key0) = 1
                THEN IF event.shiftKey /\ IsUpper(key0[1]) THEN key0
                     ELSE IF ~event.shiftKey /\ IsLower(key0[1]) THEN key0
                     ELSE <<ToLower(key0[1])>>
                ELSE key0
    IN  Join(Append(mods, key), <<"+">>)

\* isEditableContext; no event of the model has a null target
isEditableContext(target) ==
    \/ target.tagName = "INPUT"
    \/ target.tagName = "TEXTAREA"
    \/ target.contentEditable = "true"
    \/ \E i \in 1..Len(target.ancestors) : target.ancestors[i] = "true"

isSpecialKey(event) == event.altKey \/ event.ctrlKey

\* mutant: a pair conflicts only when the sequence registered first is the shorter
hasConflict_firstShorter(seq1, seq2) ==
    LET parts1 == Split(seq1, SP)
        parts2 == Split(seq2, SP)
    IN  /\ Len(parts1) < Len(parts2)
        /\ \A i \in 1..Len(parts1) : parts1[i] = parts2[i]

\* hasConflict
hasConflict(seq1, seq2) ==
    LET parts1 == Split(seq1, SP)
        parts2 == Split(seq2, SP)
        minLength == IF Len(parts1) < Len(parts2) THEN Len(parts1) ELSE Len(parts2)
    IN  /\ \A i \in 1..minLength : parts1[i] = parts2[i]
        /\ Len(parts1) # Len(parts2)

\* mutant: the conflicts of the earlier tables are not cleared
detectConflicts_accumulates(map) ==
    LET sequences == MapKeys(map)
    IN  conflicts \cup
        { sequences[i] \o <<" ","<","-",">"," ">> \o sequences[j] :
            <<i, j>> \in { p \in (1..Len(sequences)) \X (1..Len(sequences)) :
                             p[1] < p[2] /\ hasConflict(sequences[p[1]], sequences[p[2]]) } }

\* detectConflicts: the descriptions "seq1 <-> seq2" for i < j in insertion order
detectConflicts(map) ==
    LET sequences == MapKeys(map)
    IN  { sequences[i] \o <<" ","<","-",">"," ">> \o sequences[j] :
            <<i, j>> \in { p \in (1..Len(sequences)) \X (1..Len(sequences)) :
                             p[1] < p[2] /\ hasConflict(sequences[p[1]], sequences[p[2]]) } }

\* mutant: startsWith asked the wrong way round
hasMatchingPrefix_reversed(sequence) ==
    \E i \in 1..Len(bindings) : StartsWith(sequence, bindings[i].key \o SP)

\* hasMatchingPrefix
hasMatchingPrefix(sequence) ==
    \E i \in 1..Len(bindings) : StartsWith(bindings[i].key, sequence \o SP)

\* mutant: the previous timer is forgotten, not cancelled
clearSequenceTimeout_noCancel(scheduled) == scheduled

\* clearSequenceTimeout: the scheduler's callbacks left after clearTimeout(this.timeoutId)
clearSequenceTimeout(scheduled) ==
    IF timeoutId # 0 THEN { t \in scheduled : t.id # timeoutId } ELSE scheduled

\* mutant: the timer id is dropped without clearTimeout
resetSequence_keepsTimer(scheduled) ==
    /\ currentSequence' = <<>>
    /\ timers' = scheduled
    /\ timeoutId' = 0
    /\ UNCHANGED nextTimerId

\* resetSequence, run while `scheduled` are the outstanding callbacks
resetSequence(scheduled) ==
    /\ currentSequence' = <<>>
    /\ timers' = clearSequenceTimeout(scheduled)
    /\ timeoutId' = 0
    /\ UNCHANGED nextTimerId

\* mutant: a new timer is armed without cancelling the previous one
startSequenceTimeout_noClear(scheduled) ==
    /\ nextTimerId <= MaxTimers
    /\ timers' = scheduled \cup {[id |-> nextTimerId, delay |-> sequenceTimeout]}
    /\ timeoutId' = nextTimerId
    /\ nextTimerId' = nextTimerId + 1

\* startSequenceTimeout: cancel the previous timer, then arm one with the current delay
startSequenceTimeout(scheduled) ==
    /\ nextTimerId <= MaxTimers
    /\ timers' = clearSequenceTimeout(scheduled) \cup {[id |-> nextTimerId, delay |-> sequenceTimeout]}
    /\ timeoutId' = nextTimerId
    /\ nextTimerId' = nextTimerId + 1

\* saveSettings: chrome.storage.sync.set of the two settings
saveSettings(timeout, isEnabled) ==
    store' = [sequenceTimeout |-> timeout,
              hotkeyEnabled   |-> IF isEnabled THEN "true" ELSE "false"]

----------------------------------------------------------------------------
(* Observation: what the latest operation was and what it was fed *)

\* the Maps that parse returns for the configuration texts
ParsedTables == { parse(content) : content \in ConfigTexts }

\* the Maps that parse returns for the texts with a Shift step
ModifierTables == { parse(content) : content \in ModifierTexts }

\* the token lists of the keys of these tables: key.split(' '), computed once
KeyTokens ==
    [ k \in UNION { { t[i].key : i \in 1..Len(t) } : t \in ParsedTables \cup ModifierTables }
        |-> Split(k, SP) ]

\* the marker of a key-press history that did not start from Idle
Stale == << <<"#">> >>

\* p is a strict prefix, token by token, of a key of the map
IsStrictTokenPrefix(p, map) ==
    \E i \in 1..Len(map) :
        LET toks == KeyTokens[map[i].key]
        IN  Len(p) < Len(toks) /\ SubSeq(toks, 1, Len(p)) = p

\* fed after a key press is accepted: the history goes on while it spells the
\* beginning of a registered sequence and starts afresh from Idle otherwise
FedAfterKey(token) ==
    LET base == IF fed # Stale /\ fed # <<>> /\ IsStrictTokenPrefix(fed, bindings) THEN fed
                ELSE IF currentSequence = <<>> THEN <<>>
                ELSE Stale
    IN  IF base = Stale THEN Stale ELSE Append(base, token)

\* the observation variables after operation `name`; accepted is the list of
\* the token a key press appended to the sequence, empty for everything else
Observe(name, accepted) ==
    /\ op' = name
    /\ fed' = IF accepted # <<>> THEN FedAfterKey(accepted[1])
              ELSE IF currentSequence' = <<>> THEN <<>> ELSE Stale
    /\ reloaded' = IF currentSequence' = <<>> THEN FALSE
                   ELSE IF name = "loadBindings" THEN TRUE
                   ELSE reloaded

----------------------------------------------------------------------------
(* HotkeyManager: the operations *)

\* executeAction: the call the handler makes for a matched binding, with the
\* engine state it is made in; an insert action goes to
\* window.LyXInserter.insertText, which may throw (caught and logged)
executeAction(binding, event, sequence) ==
    { << [action  |-> binding.action,
          pending |-> sequence,
          timerId |-> timeoutId,
          threw   |-> threw] >> :
        threw \in IF binding.action.type = "insert" THEN BOOLEAN ELSE {FALSE} }

\* mutant: the enabled flag is not looked at
skipped_ignoresEnabled(event) ==
    ~isEditableContext(event.target) /\ ~isSpecialKey(event)

\* mutant: the editable-context test is missing
skipped_noContextTest(event) == ~enabled

\* handleKeyDown, its two early returns: the presses it does not look at
skipped(event) ==
    \/ ~enabled
    \/ ~isEditableContext(event.target) /\ ~isSpecialKey(event)

\* mutant: a prefix match fires the first binding that begins with the candidate
partialMatch_firesFirst(pushed) ==
    /\ currentSequence' = pushed
    /\ startSequenceTimeout(timers)
    /\ emitted' = << [action  |-> bindings[CHOOSE i \in 1..Len(bindings) :
                                            StartsWith(bindings[i].key, Join(pushed, SP) \o SP)
                                 ].value.action,
                      pending |-> pushed,
                      timerId |-> timeoutId,
                      threw   |-> FALSE] >>
    /\ handled' = TRUE

\* mutant: a prefix match keeps the tokens but arms no timer
partialMatch_noTimer(pushed) ==
    /\ currentSequence' = pushed
    /\ timers' = clearSequenceTimeout(timers)
    /\ timeoutId' = 0
    /\ UNCHANGED nextTimerId
    /\ emitted' = <<>>
    /\ handled' = TRUE

\* handleKeyDown, the prefix branch
partialMatch(pushed) ==
    /\ currentSequence' = pushed
    /\ startSequenceTimeout(timers)
    /\ emitted' = <<>>
    /\ handled' = TRUE

\* mutant: at a dead end the token is tried again as the start of a sequence
noMatch_retriesToken(pushed) ==
    IF Len(pushed) > 1 /\ hasMatchingPrefix(pushed[Len(pushed)])
    THEN partialMatch(<< pushed[Len(pushed)] >>)
    ELSE /\ resetSequence(timers)
         /\ emitted' = <<>>
         /\ handled' = FALSE

\* mutant: a dead end suppresses the key's default effect too
noMatch_suppresses(pushed) ==
    /\ resetSequence(timers)
    /\ emitted' = <<>>
    /\ handled' = TRUE

\* handleKeyDown, the no-match branch
noMatch(pushed) ==
    /\ resetSequence(timers)
    /\ emitted' = <<>>
    /\ handled' = FALSE

\* mutant: a candidate that is also the beginning of a longer key waits for more
exactMatch_prefixFirst(binding, event, pushed) ==
    IF hasMatchingPrefix(Join(pushed, SP))
    THEN partialMatch(pushed)
    ELSE /\ emitted' \in executeAction(binding, event, pushed)
         /\ resetSequence(timers)
         /\ handled' = TRUE

\* mutant: executeAction has no try/catch, a throwing sink ends the handler
exactMatch_throwPropagates(binding, event, pushed) ==
    /\ emitted' \in executeAction(binding, event, pushed)
    /\ IF emitted'[1].threw
       THEN /\ currentSequence' = pushed
            /\ UNCHANGED <<timers, timeoutId, nextTimerId>>
            /\ handled' = FALSE
       ELSE /\ resetSequence(timers)
            /\ handled' = TRUE

\* mutant: the key is reported handled only when the sink took the text
exactMatch_handledIfDelivered(binding, event, pushed) ==
    /\ emitted' \in executeAction(binding, event, pushed)
    /\ resetSequence(timers)
    /\ handled' = ~emitted'[1].threw

\* handleKeyDown, the exact-match branch
exactMatch(binding, event, pushed) ==
    /\ emitted' \in executeAction(binding, event, pushed)
    /\ resetSequence(timers)
    /\ handled' = TRUE

\* handleKeyDown
handleKeyDown(event) ==
    /\ listening
    /\ IF skipped(event)
       THEN /\ emitted' = <<>>
            /\ handled' = FALSE
            /\ UNCHANGED <<currentSequence, timers, timeoutId, nextTimerId>>
            /\ Observe("handleKeyDown", <<>>)
       ELSE LET keyString == eventToKeyString(event)
                pushed == Append(currentSequence, keyString)
                currentSequenceString == Join(pushed, SP)
            IN  /\ IF MapHas(bindings, currentSequenceString)
                   THEN exactMatch(MapGet(bindings, currentSequenceString), event, pushed)
                   ELSE IF hasMatchingPrefix(currentSequenceString)
                   THEN partialMatch(pushed)
                   ELSE noMatch(pushed)
                /\ Observe("handleKeyDown", <<keyString>>)
    /\ UNCHANGED <<bindings, conflicts, sequenceTimeout, enabled, listening,
                   settingsPc, getResult, store>>

\* mutant: the callback only forgets the timer
timeoutCallback_keepsTokens(t) ==
    /\ t \in timers
    /\ timers' = timers \ {t}
    /\ timeoutId' = 0
    /\ UNCHANGED <<currentSequence, nextTimerId>>
    /\ emitted' = <<>>
    /\ handled' = FALSE
    /\ Observe("timeout", <<>>)
    /\ UNCHANGED <<bindings, conflicts, sequenceTimeout, enabled, listening,
                   settingsPc, getResult, store>>

\* the setTimeout callback of startSequenceTimeout, run by the scheduler
timeoutCallback(t) ==
    /\ t \in timers
    /\ resetSequence(timers \ {t})
    /\ emitted' = <<>>
    /\ handled' = FALSE
    /\ Observe("timeout", <<>>)
    /\ UNCHANGED <<bindings, conflicts, sequenceTimeout, enabled, listening,
                   settingsPc, getResult, store>>

\* setEnabled
setEnabled(isEnabled) ==
    /\ enabled' = isEnabled
    /\ saveSettings(sequenceTimeout, isEnabled)
    /\ IF ~isEnabled
       THEN resetSequence(timers)
       ELSE UNCHANGED <<currentSequence, timers, timeoutId, nextTimerId>>
    /\ emitted' = <<>>
    /\ handled' = FALSE
    /\ Observe("setEnabled", <<>>)
    /\ UNCHANGED <<bindings, conflicts, sequenceTimeout, listening, settingsPc, getResult>>

Max(a, b) == IF a > b THEN a ELSE b
Min(a, b) == IF a < b THEN a ELSE b

\* mutant: the running timer is re-armed with the new value at once
setSequenceTimeout_rearms(timeout) ==
    /\ sequenceTimeout' = Max(500, Min(5000, timeout))
    /\ saveSettings(sequenceTimeout', enabled)
    /\ timers' = { [id |-> t.id, delay |-> sequenceTimeout'] : t \in timers }
    /\ emitted' = <<>>
    /\ handled' = FALSE
    /\ UNCHANGED <<bindings, conflicts, currentSequence, timeoutId, nextTimerId,
                   enabled, listening, settingsPc, getResult>>
    /\ Observe("setSequenceTimeout", <<>>)

\* setSequenceTimeout
setSequenceTimeout(timeout) ==
    /\ sequenceTimeout' = Max(500, Min(5000, timeout))
    /\ saveSettings(sequenceTimeout', enabled)
    /\ emitted' = <<>>
    /\ handled' = FALSE
    /\ UNCHANGED <<bindings, conflicts, currentSequence, timers, timeoutId, nextTimerId,
                   enabled, listening, settingsPc, getResult>>
    /\ Observe("setSequenceTimeout", <<>>)

\* mutant: loading a table abandons the sequence in progress
loadBindings_resetsSequence(map) ==
    /\ bindings' = map
    /\ conflicts' = detectConflicts(map)
    /\ resetSequence(timers)
    /\ emitted' = <<>>
    /\ handled' = FALSE
    /\ UNCHANGED <<sequenceTimeout, enabled, listening, settingsPc, getResult, store>>
    /\ Observe("loadBindings", <<>>)

\* loadBindings, called with the Map that parse returned
loadBindings(map) ==
    /\ bindings' = map
    /\ conflicts' = detectConflicts(map)
    /\ emitted' = <<>>
    /\ handled' = FALSE
    /\ UNCHANGED <<currentSequence, timers, timeoutId, nextTimerId, sequenceTimeout,
                   enabled, listening, settingsPc, getResult, store>>
    /\ Observe("loadBindings", <<>>)

\* mutant: every binding is counted as single-step
getStatistics_singleIsTotal ==
    [ totalBindings      |-> Len(bindings),
      singleStepBindings |-> Len(bindings),
      multiStepBindings  |-> Cardinality({ i \in 1..Len(bindings) : Includes(bindings[i].key, SP) }),
      conflicts          |-> Cardinality(conflicts),
      enabled            |-> enabled,
      sequenceTimeout    |-> sequenceTimeout ]

\* getStatistics
getStatistics ==
    [ totalBindings      |-> Len(bindings),
      singleStepBindings |-> Len(bindings)
                             - Cardinality({ i \in 1..Len(bindings) : Includes(bindings[i].key, SP) }),
      multiStepBindings  |-> Cardinality({ i \in 1..Len(bindings) : Includes(bindings[i].key, SP) }),
      conflicts          |-> Cardinality(conflicts),
      enabled            |-> enabled,
      sequenceTimeout    |-> sequenceTimeout ]

\* startListening
startListening ==
    /\ ~listening
    /\ listening' = TRUE
    /\ emitted' = <<>>
    /\ handled' = FALSE
    /\ UNCHANGED <<bindings, conflicts, currentSequence, timers, timeoutId, nextTimerId,
                   sequenceTimeout, enabled, settingsPc, getResult, store>>
    /\ UNCHANGED <<parserVars, extensionVars>>
    /\ Observe("startListening", <<>>)

\* stopListening
stopListening ==
    /\ listening
    /\ listening' = FALSE
    /\ resetSequence(timers)
    /\ emitted' = <<>>
    /\ handled' = FALSE
    /\ Observe("stopListening", <<>>)
    /\ UNCHANGED <<bindings, conflicts, sequenceTimeout, enabled, settingsPc, getResult, store>>
    /\ UNCHANGED <<parserVars, extensionVars>>

\* loadSettings: the continuation after the awaited chrome.storage.sync.get,
\* which either resolved with getResult or rejected (caught and logged)
loadSettings(resolved) ==
    /\ settingsPc = "awaiting"
    /\ settingsPc' = "done"
    /\ IF resolved
       THEN /\ sequenceTimeout' = IF getResult.sequenceTimeout = 0 THEN 1500
                                  ELSE getResult.sequenceTimeout
            /\ enabled' = (getResult.hotkeyEnabled # "false")
       ELSE UNCHANGED <<sequenceTimeout, enabled>>
    /\ emitted' = <<>>
    /\ handled' = FALSE
    /\ UNCHANGED <<bindings, conflicts, currentSequence, timers, timeoutId, nextTimerId,
                   listening, getResult, store>>
    /\ Observe("loadSettings", <<>>)

\* the stored loadedBindings by its typeof and its value; "undefined": the key
\* is not in the store
NoBindings == [type |-> "undefined", value |-> <<>>]

\* the engine and the parser on their own: no background controller, no
\* plugin and no page around them
ExtensionInit ==
    /\ storedBindings = NoBindings
    /\ changes = <<>>
    /\ extensionState = [enabled |-> "true", bindingsLoaded |-> FALSE, totalBindings |-> 0]
    /\ badgeText = ""
    /\ tasks = <<>>
    /\ isActive = FALSE
    /\ pluginPc = "none"
    /\ settings = [sequenceTimeout |-> 0, hotkeyEnabled |-> "absent", loadedBindings |-> NoBindings]
    /\ pages = <<>>
    /\ changeMade = FALSE

\* the constructor: the fields it sets, loadSettings() started and awaiting its get
Init ==
    /\ bindings = <<>>
    /\ currentSequence = <<>>
    /\ sequenceTimeout = 1500
    /\ timeoutId = 0
    /\ enabled = TRUE
    /\ conflicts = {}
    /\ timers = {}
    /\ nextTimerId = 1
    /\ listening = FALSE
    /\ settingsPc = "awaiting"
    /\ store \in StoredSettings
    /\ getResult = store
    /\ emitted = <<>>
    /\ handled = FALSE
    /\ op = "constructor"
    /\ fed = <<>>
    /\ reloaded = FALSE
    /\ bindingsData = <<>>
    /\ parserBindings = <<>>
    /\ parserLog = <<>>
    /\ ExtensionInit

\* the engine's operations leave the parser alone
KeyDown == (\E event \in Events : handleKeyDown(event)) /\ UNCHANGED <<parserVars, extensionVars>>
TimerFires == (\E t \in timers : timeoutCallback(t)) /\ UNCHANGED <<parserVars, extensionVars>>
SetEnabled == (\E isEnabled \in BOOLEAN : setEnabled(isEnabled)) /\ UNCHANGED <<parserVars, extensionVars>>
SetSequenceTimeout ==
    (\E timeout \in TimeoutInputs : setSequenceTimeout(timeout)) /\ UNCHANGED <<parserVars, extensionVars>>
LoadBindings == (\E map \in ParsedTables : loadBindings(map)) /\ UNCHANGED <<parserVars, extensionVars>>
LoadSettings == (\E resolved \in BOOLEAN : loadSettings(resolved)) /\ UNCHANGED <<parserVars, extensionVars>>

Next ==
    \/ KeyDown
    \/ TimerFires
    \/ SetEnabled
    \/ SetSequenceTimeout
    \/ LoadBindings
    \/ startListening
    \/ stopListening
    \/ LoadSettings

Spec == Init /\ [][Next]_vars

----------------------------------------------------------------------------
(* The parser on its own: a configuration text is drawn, LyXParser.parse is
   applied to it, and the plugin hands the table to the engine *)

\* a bind directive as the bind files write it: \bind "keySpec" "command"
BindLine(keySpec, command) ==
    <<"\\","b","i","n","d"," ","\"">> \o keySpec \o <<"\""," ","\"">> \o command \o <<"\"">>

\* key-specs: M-m f, A-m f, M-m g written with a leading, a doubled and a
\* trailing space, M-m ~S-plus, ~C-b, ~M-x, g, __proto__
KeySpecs ==
    { <<"M","-","m"," ","f">>,
      <<"A","-","m"," ","f">>,
      <<" ","M","-","m"," "," ","g"," ">>,
      <<"M","-","m"," ","~","S","-","p","l","u","s">>,
      <<"~","C","-","b">>,
      <<"~","M","-","x">>,
      <<"g">>,
      ProtoKey }

\* command-specs
CommandSpecs ==
    { <<"m","a","t","h","-","i","n","s","e","r","t"," ","\\","f","r","a","c">>,
      <<"m","a","t","h","-","i","n","s","e","r","t"," ","\\","s","q","r","t">>,
      <<"m","a","t","h","-","i","n","s","e","r","t"," ","\\","a","l","p","h","a">>,
      <<"m","a","t","h","-","i","n","s","e","r","t"," ","\\","f","o","o">>,
      <<"m","a","t","h","-","i","n","s","e","r","t"," ","c","o","n","s","t","r","u","c","t","o","r">>,
      <<"q","u","o","t","e","-","i","n","s","e","r","t">>,
      <<"q","u","o","t","e","-","i","n","s","e","r","t"," ","i","n","n","e","r">>,
      <<"q","u","o","t","e","-","i","n","s","e","r","t"," ","o","u","t","e","r">>,
      <<"s","p","e","c","i","a","l","c","h","a","r","-","i","n","s","e","r","t"," ","h","y","p","h","e","n","a","t","i","o","n">>,
      <<"s","p","e","c","i","a","l","c","h","a","r","-","i","n","s","e","r","t"," ","n","o","b","r","e","a","k","d","a","s","h">>,
      <<"s","p","e","c","i","a","l","c","h","a","r","-","i","n","s","e","r","t"," ","l","i","g","a","t","u","r","e","-","b","r","e","a","k">>,
      <<"s","p","e","c","i","a","l","c","h","a","r","-","i","n","s","e","r","t"," ","e","n","d","-","o","f","-","s","e","n","t","e","n","c","e">>,
      <<"s","p","e","c","i","a","l","c","h","a","r","-","i","n","s","e","r","t"," ","d","o","t","s">>,
      <<"s","p","e","c","i","a","l","c","h","a","r","-","i","n","s","e","r","t"," ","s","l","a","s","h">>,
      <<"s","e","l","f","-","i","n","s","e","r","t"," ","x">>,
      <<"b","u","f","f","e","r","-","n","e","w">>,
      <<"m","a","t","h","-","s","u","b","s","c","r","i","p","t">> }

\* lines parse() passes over: white space only, a comment, a line that is not
\* a \bind directive, and a \bind directive with one quoted field
BlankLine == <<" "," ">>
CommentLine == <<"#"," ","B","a","s","i","c"," ","m","a","t","h"," ","f","u","n","c","t","i","o","n","s">>
OtherLine == <<"F","o","r","m","a","t"," ","4">>
MalformedLine == <<"\\","b","i","n","d"," ","\"","M","-","m"," ","f","\"">>

\* the lines the texts of several lines are made of
LinePool ==
    { BindLine(<<"M","-","m"," ","f">>, <<"m","a","t","h","-","i","n","s","e","r","t"," ","\\","f","r","a","c">>),
      BindLine(<<"M","-","m"," ","g"," ","a">>, <<"m","a","t","h","-","i","n","s","e","r","t"," ","\\","a","l","p","h","a">>),
      BindLine(<<"M","-","m"," ","g">>, <<"m","a","t","h","-","i","n","s","e","r","t"," ","\\","g","a","m","m","a">>),
      BindLine(<<"A","-","m"," ","f">>, <<"s","e","l","f","-","i","n","s","e","r","t"," ","x">>),
      BlankLine, CommentLine, OtherLine, MalformedLine }

\* two directives whose keys are 8 a and 8, in both orders: 8 is an array index
IndexKeyTexts ==
    { Join(<<BindLine(<<"8"," ","a">>, <<"s","e","l","f","-","i","n","s","e","r","t"," ","x">>),
             BindLine(<<"8">>, <<"b","u","f","f","e","r","-","n","e","w">>)>>, NL),
      Join(<<BindLine(<<"8">>, <<"b","u","f","f","e","r","-","n","e","w">>),
             BindLine(<<"8"," ","a">>, <<"s","e","l","f","-","i","n","s","e","r","t"," ","x">>)>>, NL) }

\* configuration texts: every text of at most MaxLines lines of the pool,
\* every single directive made of a key-spec and a command-spec, the two
\* texts with an array-index key, and the texts with a Shift step
ParserTexts ==
    { Join(lines, NL) : lines \in UNION { [1..n -> LinePool] : n \in 0..MaxLines } }
    \cup { BindLine(keySpec, command) : keySpec \in KeySpecs, command \in CommandSpecs }
    \cup IndexKeyTexts
    \cup ModifierTexts

\* parse tabulated over the texts of the model: the map it returns and the
\* warnings it logs
ParsedText ==
    [ text \in ParserTexts |->
        [bindings |-> parse(text), warnings |-> parseWarnings(Split(text, NL))] ]

\* parser.parse(bindingsData) called on its own
Parse ==
    /\ parserBindings' = ParsedText[bindingsData].bindings
    /\ parserLog' = ParsedText[bindingsData].warnings
    /\ op' = "parse"
    /\ UNCHANGED <<bindings, currentSequence, sequenceTimeout, timeoutId, enabled,
                   conflicts, timers, nextTimerId, listening, settingsPc, getResult,
                   store, emitted, handled, fed, reloaded, bindingsData>>
    /\ UNCHANGED extensionVars

\* the plugin's loadBindings(bindingsData) on a string: parser.parse, then
\* hotkeyManager.loadBindings with the map parse returned, then the text
\* written to the store; the listeners of a page that has none yet hear nothing
pluginLoadBindings ==
    /\ parserBindings' = ParsedText[bindingsData].bindings
    /\ parserLog' = ParsedText[bindingsData].warnings
    /\ loadBindings(ParsedText[bindingsData].bindings)
    /\ storedBindings' = [type |-> "string", value |-> bindingsData]
    /\ changes' = IF pluginPc = "ready" /\ storedBindings # [type |-> "string", value |-> bindingsData]
                  THEN Append(changes, [hotkeyEnabled |-> "same", sequenceTimeout |-> -1,
                                        changed |-> TRUE,
                                        loadedBindings |-> [type |-> "string", value |-> bindingsData]])
                  ELSE changes
    /\ UNCHANGED <<bindingsData, extensionState, badgeText, tasks, isActive, pluginPc,
                   settings, pages, changeMade>>

\* the parser and the engine after their constructors, and the text to parse
ParserInit ==
    /\ bindings = <<>>
    /\ currentSequence = <<>>
    /\ sequenceTimeout = 1500
    /\ timeoutId = 0
    /\ enabled = TRUE
    /\ conflicts = {}
    /\ timers = {}
    /\ nextTimerId = 1
    /\ listening = FALSE
    /\ settingsPc = "awaiting"
    /\ store \in StoredSettings
    /\ getResult = store
    /\ emitted = <<>>
    /\ handled = FALSE
    /\ op = "constructor"
    /\ fed = <<>>
    /\ reloaded = FALSE
    /\ bindingsData \in ParserTexts
    /\ parserBindings = <<>>
    /\ parserLog = <<>>
    /\ ExtensionInit

ParserNext ==
    \/ Parse
    \/ pluginLoadBindings

ParserSpec == ParserInit /\ [][ParserNext]_vars

----------------------------------------------------------------------------
(* The table between the parser and the engine: the parser's table is
   exported and imported again, and the plugin loads either form *)

\* parser.importBindings(parser.exportBindings())
importExported ==
    /\ parserBindings' = importBindings(exportBindings(parserBindings))
    /\ op' = "importBindings"
    /\ UNCHANGED <<bindings, currentSequence, sequenceTimeout, timeoutId, enabled,
                   conflicts, timers, nextTimerId, listening, settingsPc, getResult,
                   store, emitted, handled, fed, reloaded, bindingsData, parserLog>>
    /\ UNCHANGED extensionVars

\* the plugin's loadBindings(bindingsData) on an object, the object being the
\* one parser.exportBindings() returned: parser.importBindings, then
\* hotkeyManager.loadBindings with parser.getBindings(), then the object
\* written to the store
pluginLoadBindingsObject ==
    /\ parserBindings' = importBindings(exportBindings(parserBindings))
    /\ loadBindings(importBindings(exportBindings(parserBindings)))
    /\ storedBindings' = [type |-> "object", value |-> exportBindings(parserBindings)]
    /\ UNCHANGED <<bindingsData, parserLog, changes, extensionState, badgeText, tasks,
                   isActive, pluginPc, settings, pages, changeMade>>

TableNext ==
    \/ Parse
    \/ pluginLoadBindings
    \/ importExported
    \/ pluginLoadBindingsObject

TableSpec == ParserInit /\ [][TableNext]_vars

----------------------------------------------------------------------------
(* Modifier keys: the engine holds a table with a Shift step and receives the
   key presses of a keyboard, the presses of the modifier keys included *)

ModifierKeyDown ==
    (\E event \in ModifierEvents : handleKeyDown(event)) /\ UNCHANGED <<parserVars, extensionVars>>

\* mutant: the engine keeps the Map object it was handed, so that clearing
\* and refilling the parser's map changes the engine's table with it
ParseText_sharedMap ==
    \E content \in ModifierTexts :
        /\ bindingsData' = content
        /\ parserBindings' = ParsedText[content].bindings
        /\ parserLog' = ParsedText[content].warnings
        /\ op' = "parse"
        /\ bindings' = IF bindings = parserBindings THEN ParsedText[content].bindings ELSE bindings
        /\ UNCHANGED <<currentSequence, sequenceTimeout, timeoutId, enabled,
                       conflicts, timers, nextTimerId, listening, settingsPc, getResult,
                       store, emitted, handled, fed, reloaded>>
        /\ UNCHANGED extensionVars

\* parser.parse(content) called with a text while the engine, which copied the
\* Map it was handed (new Map(bindings)), goes on matching
ParseText ==
    \E content \in ModifierTexts :
        /\ bindingsData' = content
        /\ parserBindings' = ParsedText[content].bindings
        /\ parserLog' = ParsedText[content].warnings
        /\ op' = "parse"
        /\ UNCHANGED <<bindings, currentSequence, sequenceTimeout, timeoutId, enabled,
                       conflicts, timers, nextTimerId, listening, settingsPc, getResult,
                       store, emitted, handled, fed, reloaded>>
        /\ UNCHANGED extensionVars

ModifierInit ==
    /\ ParserInit
    /\ bindingsData \in ModifierTexts

ModifierNext ==
    \/ pluginLoadBindings
    \/ startListening
    \/ ModifierKeyDown
    \/ TimerFires
    \/ ParseText
    \/ importExported

ModifierSpec == ModifierInit /\ [][ModifierNext]_vars

----------------------------------------------------------------------------
(* chrome.storage.sync seen by every context of the extension *)

\* the fields of the engine, the store apart
engineFields == <<bindings, currentSequence, sequenceTimeout, timeoutId, enabled,
                  conflicts, timers, nextTimerId, listening, settingsPc, getResult,
                  emitted, handled, op, fed, reloaded>>

\* a storage.onChanged event: for each key whether it is among the changes
\* and its newValue ("same", -1 and changed = FALSE: the key is not among them;
\* "absent", 0 and type "undefined": the key was removed, newValue is undefined)
ChangeOf(oldStore, newStore, oldBindings, newBindings) ==
    [ hotkeyEnabled   |-> IF newStore.hotkeyEnabled = oldStore.hotkeyEnabled THEN "same"
                          ELSE newStore.hotkeyEnabled,
      sequenceTimeout |-> IF newStore.sequenceTimeout = oldStore.sequenceTimeout THEN -1
                          ELSE newStore.sequenceTimeout,
      changed         |-> newBindings # oldBindings,
      loadedBindings  |-> newBindings ]

IsChange(change) ==
    \/ change.hotkeyEnabled # "same"
    \/ change.sequenceTimeout # -1
    \/ change.changed

\* the events in flight after a write: onChanged fires when a value changed
Notified(queue, oldStore, newStore, oldBindings, newBindings) ==
    IF IsChange(ChangeOf(oldStore, newStore, oldBindings, newBindings))
    THEN Append(queue, ChangeOf(oldStore, newStore, oldBindings, newBindings))
    ELSE queue

\* !!value of a stored loadedBindings
HasBindings(stored) ==
    \/ stored.type = "object"
    \/ stored.type = "string" /\ stored.value # <<>>

----------------------------------------------------------------------------
(* BackgroundController (src/background.js) *)

\* the variables the background controller does not touch
backgroundFrame == <<engineFields, parserVars, isActive, pluginPc, settings, pages, changeMade>>

\* the bind file the settings page sends
BackgroundText == [type |-> "string", value |-> ConfigFile[2]]

\* the settings objects passed to updateSettings: the settings page sends
\* hotkeyEnabled and sequenceTimeout, another sender sequenceTimeout alone
SettingsInputs ==
    { [hotkeyEnabled |-> "true",  sequenceTimeout |-> 1500],
      [hotkeyEnabled |-> "false", sequenceTimeout |-> 1500],
      [hotkeyEnabled |-> "same",  sequenceTimeout |-> 1500] }

\* an async operation of the controller between its call of the storage and
\* its continuation
Task(name, hotkeyEnabled, timeout, data) ==
    [ op |-> name, hotkeyEnabled |-> hotkeyEnabled, sequenceTimeout |-> timeout,
      loadedBindings |-> data, settled |-> "pending",
      got |-> [hotkeyEnabled |-> "absent", loadedBindings |-> NoBindings] ]

\* !value of extensionState.enabled
Negated(value) == IF value = "true" THEN "false" ELSE "true"

\* updateBadge: the text given to setBadgeText
updateBadge(state) ==
    IF state.enabled # "true" THEN "OFF"
    ELSE IF ~state.bindingsLoaded THEN "!"
    ELSE "ON"

\* loadSettings up to its await (the constructor, handleStartup)
bgLoadSettings ==
    /\ Len(tasks) < MaxTasks
    /\ tasks' = Append(tasks, Task("loadSettings", "same", -1, NoBindings))
    /\ UNCHANGED <<extensionState, badgeText, store, storedBindings, changes>>
    /\ UNCHANGED backgroundFrame

\* toggleExtension up to its await: the flag is flipped, the write requested
toggleExtension ==
    /\ Len(tasks) < MaxTasks
    /\ extensionState' = [extensionState EXCEPT !.enabled = Negated(@)]
    /\ tasks' = Append(tasks, Task("toggleExtension", Negated(extensionState.enabled), -1, NoBindings))
    /\ UNCHANGED <<badgeText, store, storedBindings, changes>>
    /\ UNCHANGED backgroundFrame

\* loadBindingsFile(content) up to its await
loadBindingsFile ==
    /\ Len(tasks) < MaxTasks
    /\ tasks' = Append(tasks, Task("loadBindingsFile", "same", -1, BackgroundText))
    /\ UNCHANGED <<extensionState, badgeText, store, storedBindings, changes>>
    /\ UNCHANGED backgroundFrame

\* updateSettings(settings) up to its await
updateSettings ==
    /\ Len(tasks) < MaxTasks
    /\ \E input \in SettingsInputs :
           tasks' = Append(tasks, Task("updateSettings", input.hotkeyEnabled,
                                       input.sequenceTimeout, NoBindings))
    /\ UNCHANGED <<extensionState, badgeText, store, storedBindings, changes>>
    /\ UNCHANGED backgroundFrame

\* the store after chrome.storage.sync.set with the keys of the task
StoreAfter(task) ==
    [ sequenceTimeout |-> IF task.sequenceTimeout = -1 THEN store.sequenceTimeout
                          ELSE task.sequenceTimeout,
      hotkeyEnabled   |-> IF task.hotkeyEnabled = "same" THEN store.hotkeyEnabled
                          ELSE task.hotkeyEnabled ]

BindingsAfter(task) ==
    IF task.op = "loadBindingsFile" THEN task.loadedBindings ELSE storedBindings

\* the storage serves the request of a task: a get reads the store, a set
\* writes its keys; either may fail, and the promise is then rejected
storageSettles(i, ok) ==
    /\ i \in 1..Len(tasks)
    /\ tasks[i].settled = "pending"
    /\ IF ~ok
       THEN /\ tasks' = [tasks EXCEPT ![i].settled = "rejected"]
            /\ UNCHANGED <<store, storedBindings, changes>>
       ELSE IF tasks[i].op = "loadSettings"
       THEN /\ tasks' = [tasks EXCEPT ![i].settled = "resolved",
                                      ![i].got = [hotkeyEnabled |-> store.hotkeyEnabled,
                                                  loadedBindings |-> storedBindings]]
            /\ UNCHANGED <<store, storedBindings, changes>>
       ELSE /\ Len(changes) < MaxChanges
            /\ tasks' = [tasks EXCEPT ![i].settled = "resolved"]
            /\ store' = StoreAfter(tasks[i])
            /\ storedBindings' = BindingsAfter(tasks[i])
            /\ changes' = Notified(changes, store, StoreAfter(tasks[i]),
                                   storedBindings, BindingsAfter(tasks[i]))
    /\ UNCHANGED <<extensionState, badgeText>>
    /\ UNCHANGED backgroundFrame

\* extensionState after the continuation of a task whose promise resolved
StateAfter(task) ==
    IF task.op = "loadSettings"
    THEN [extensionState EXCEPT !.enabled = IF task.got.hotkeyEnabled # "false" THEN "true" ELSE "false",
                                !.bindingsLoaded = HasBindings(task.got.loadedBindings)]
    ELSE IF task.op = "loadBindingsFile"
    THEN [extensionState EXCEPT !.bindingsLoaded = TRUE]
    ELSE IF task.op = "updateSettings" /\ task.hotkeyEnabled # "same"
    THEN [extensionState EXCEPT !.enabled = task.hotkeyEnabled]
    ELSE extensionState

\* the continuation of a task calls updateBadge
CallsUpdateBadge(task) == task.op # "updateSettings" \/ task.hotkeyEnabled # "same"

\* the code after the await of a task: with the promise rejected the
\* exception leaves the operation (loadSettings catches it) and nothing else runs
resume(i) ==
    /\ i \in 1..Len(tasks)
    /\ tasks[i].settled # "pending"
    /\ tasks' = SubSeq(tasks, 1, i - 1) \o SubSeq(tasks, i + 1, Len(tasks))
    /\ IF tasks[i].settled = "resolved"
       THEN /\ extensionState' = StateAfter(tasks[i])
            /\ badgeText' = IF CallsUpdateBadge(tasks[i]) THEN updateBadge(StateAfter(tasks[i]))
                            ELSE badgeText
       ELSE UNCHANGED <<extensionState, badgeText>>
    /\ UNCHANGED <<store, storedBindings, changes>>
    /\ UNCHANGED backgroundFrame

\* extensionState after handleStorageChange(changes, 'sync')
StateAfterChange(change) ==
    [ extensionState EXCEPT
        !.enabled = IF change.hotkeyEnabled = "same" THEN @ ELSE change.hotkeyEnabled,
        !.bindingsLoaded = IF change.changed THEN HasBindings(change.loadedBindings) ELSE @ ]

\* handleStorageChange on the oldest event in flight
bgHandleStorageChange ==
    /\ changes # <<>>
    /\ changes' = Tail(changes)
    /\ extensionState' = StateAfterChange(Head(changes))
    /\ badgeText' = IF Head(changes).hotkeyEnabled # "same" \/ Head(changes).changed
                    THEN updateBadge(StateAfterChange(Head(changes)))
                    ELSE badgeText
    /\ UNCHANGED <<tasks, store, storedBindings>>
    /\ UNCHANGED backgroundFrame

\* writes of the other contexts: a content script saves its engine's settings
\* (saveSettings), the settings page removes the bindings (clearBindings) or
\* clears the store (resetSettings)
ExternalWrites ==
    { [store |-> [sequenceTimeout |-> 1500, hotkeyEnabled |-> "true"],  keepBindings |-> TRUE],
      [store |-> [sequenceTimeout |-> 1500, hotkeyEnabled |-> "false"], keepBindings |-> TRUE],
      [store |-> store, keepBindings |-> FALSE],
      [store |-> [sequenceTimeout |-> 0, hotkeyEnabled |-> "absent"],   keepBindings |-> FALSE] }

externalWrite ==
    /\ Len(changes) < MaxChanges
    /\ \E write \in ExternalWrites :
           /\ store' = write.store
           /\ storedBindings' = IF write.keepBindings THEN storedBindings ELSE NoBindings
           /\ changes' = Notified(changes, store, write.store, storedBindings,
                                  IF write.keepBindings THEN storedBindings ELSE NoBindings)
           /\ changes' # changes
    /\ UNCHANGED <<extensionState, badgeText, tasks>>
    /\ UNCHANGED backgroundFrame

\* the stores the extension starts with
BackgroundStores ==
    { [sequenceTimeout |-> 0,    hotkeyEnabled |-> "absent"],
      [sequenceTimeout |-> 1500, hotkeyEnabled |-> "true"],
      [sequenceTimeout |-> 1500, hotkeyEnabled |-> "false"] }

\* the constructor of the controller: loadSettings() is awaiting its get
BackgroundInit ==
    /\ bindings = <<>>
    /\ currentSequence = <<>>
    /\ sequenceTimeout = 1500
    /\ timeoutId = 0
    /\ enabled = TRUE
    /\ conflicts = {}
    /\ timers = {}
    /\ nextTimerId = 1
    /\ listening = FALSE
    /\ settingsPc = "awaiting"
    /\ store \in BackgroundStores
    /\ getResult = store
    /\ emitted = <<>>
    /\ handled = FALSE
    /\ op = "constructor"
    /\ fed = <<>>
    /\ reloaded = FALSE
    /\ bindingsData = <<>>
    /\ parserBindings = <<>>
    /\ parserLog = <<>>
    /\ storedBindings \in {NoBindings, BackgroundText}
    /\ changes = <<>>
    /\ extensionState = [enabled |-> "true", bindingsLoaded |-> FALSE, totalBindings |-> 0]
    /\ badgeText = ""
    /\ tasks = <<Task("loadSettings", "same", -1, NoBindings)>>
    /\ isActive = FALSE
    /\ pluginPc = "none"
    /\ settings = [sequenceTimeout |-> 0, hotkeyEnabled |-> "absent", loadedBindings |-> NoBindings]
    /\ pages = <<>>
    /\ changeMade = FALSE

StorageSettles == \E i \in 1..Len(tasks), ok \in BOOLEAN : storageSettles(i, ok)
Resume == \E i \in 1..Len(tasks) : resume(i)

BackgroundNext ==
    \/ bgLoadSettings
    \/ toggleExtension
    \/ loadBindingsFile
    \/ updateSettings
    \/ StorageSettles
    \/ Resume
    \/ bgHandleStorageChange
    \/ externalWrite

BackgroundSpec == BackgroundInit /\ [][BackgroundNext]_vars

----------------------------------------------------------------------------
(* LyXHotkeyPlugin (src/content.js): the plugin of one page, its engine and
   its parser *)

\* the variables of the extension a page does not touch
pluginFrame == <<extensionState, badgeText, tasks, pages, changeMade>>

\* the bind file stored for the page
PageText == [type |-> "string", value |-> ConfigFile[2]]

\* the store a page starts with
PageStores ==
    StoredSettings \cup { [sequenceTimeout |-> 1500, hotkeyEnabled |-> "true"] }

\* this.enabled as saveSettings writes it
Flag(isEnabled) == IF isEnabled THEN "true" ELSE "false"

\* initialize: sequenceTimeout after `if (settings.sequenceTimeout) setSequenceTimeout(...)`
InitTimeout ==
    IF settings.sequenceTimeout # 0 THEN Max(500, Min(5000, settings.sequenceTimeout))
    ELSE sequenceTimeout

\* initialize: the store after the saveSettings of that setSequenceTimeout
InitStoreTimeout ==
    IF settings.sequenceTimeout # 0
    THEN [sequenceTimeout |-> InitTimeout, hotkeyEnabled |-> Flag(enabled)]
    ELSE store

\* initialize: the store after `if (settings.hotkeyEnabled !== false) activate()`
InitStoreActive ==
    IF settings.hotkeyEnabled # "false"
    THEN [sequenceTimeout |-> InitTimeout, hotkeyEnabled |-> "true"]
    ELSE InitStoreTimeout

\* initialize: the stored loadedBindings after `if (settings.loadedBindings) loadBindings(...)`
InitStoredBindings ==
    IF HasBindings(settings.loadedBindings) THEN settings.loadedBindings ELSE storedBindings

\* the continuation of initialize after its awaited get: the timeout is set,
\* the bindings are loaded, the plugin is activated, the listeners are
\* registered; a rejected get is caught and nothing of this happens
pluginInitialize(resolved) ==
    /\ pluginPc = "awaiting"
    /\ IF ~resolved
       THEN /\ pluginPc' = "failed"
            /\ UNCHANGED <<sequenceTimeout, enabled, listening, isActive, store, storedBindings,
                           changes, bindings, conflicts, parserBindings, parserLog, bindingsData>>
       ELSE /\ pluginPc' = "ready"
            /\ sequenceTimeout' = InitTimeout
            /\ IF HasBindings(settings.loadedBindings)
               THEN /\ bindingsData' = settings.loadedBindings.value
                    /\ parserBindings' = ParsedText[settings.loadedBindings.value].bindings
                    /\ parserLog' = ParsedText[settings.loadedBindings.value].warnings
                    /\ bindings' = ParsedText[settings.loadedBindings.value].bindings
                    /\ conflicts' = detectConflicts(ParsedText[settings.loadedBindings.value].bindings)
               ELSE UNCHANGED <<bindingsData, parserBindings, parserLog, bindings, conflicts>>
            /\ enabled' = (settings.hotkeyEnabled # "false" \/ enabled)
            /\ listening' = (settings.hotkeyEnabled # "false" \/ listening)
            /\ isActive' = (settings.hotkeyEnabled # "false")
            /\ store' = InitStoreActive
            /\ storedBindings' = InitStoredBindings
            /\ changes' = Notified(Notified(Notified(changes,
                                                     store, InitStoreTimeout, storedBindings, storedBindings),
                                            InitStoreTimeout, InitStoreTimeout, storedBindings, InitStoredBindings),
                                   InitStoreTimeout, InitStoreActive, InitStoredBindings, InitStoredBindings)
    /\ emitted' = <<>>
    /\ handled' = FALSE
    /\ UNCHANGED <<currentSequence, timers, timeoutId, nextTimerId, settingsPc, getResult, settings>>
    /\ UNCHANGED pluginFrame
    /\ Observe("initialize", <<>>)

\* handleStorageChange: the event makes the plugin call activate()
Activates(change) == change.hotkeyEnabled = "true" /\ ~isActive

\* handleStorageChange: the event makes the plugin call deactivate()
Deactivates(change) == change.hotkeyEnabled \in {"false", "absent"} /\ isActive

\* this.enabled after the activate() or deactivate() of the event
EnabledAfter(change) ==
    IF Activates(change) THEN TRUE ELSE IF Deactivates(change) THEN FALSE ELSE enabled

\* the store after the saveSettings of that activate() or deactivate()
StoreAfterFlag(change) ==
    IF Activates(change) \/ Deactivates(change)
    THEN [sequenceTimeout |-> sequenceTimeout, hotkeyEnabled |-> Flag(EnabledAfter(change))]
    ELSE store

\* this.sequenceTimeout after `if (changes.sequenceTimeout) setSequenceTimeout(newValue)`;
\* every write of a page stores a number, so newValue is never undefined here
TimeoutAfter(change) ==
    IF change.sequenceTimeout = -1 THEN sequenceTimeout
    ELSE Max(500, Min(5000, change.sequenceTimeout))

\* the store after the saveSettings of that setSequenceTimeout
StoreAfterTimeout(change) ==
    IF change.sequenceTimeout = -1 THEN StoreAfterFlag(change)
    ELSE [sequenceTimeout |-> TimeoutAfter(change), hotkeyEnabled |-> Flag(EnabledAfter(change))]

\* handleStorageChange on the oldest event in flight: activate() or
\* deactivate() for hotkeyEnabled, setSequenceTimeout for sequenceTimeout,
\* loadBindings(newValue) for loadedBindings, which parses and loads a string
\* and returns at once when the value is undefined
pluginHandleStorageChange ==
    /\ pluginPc = "ready"
    /\ changes # <<>>
    /\ enabled' = EnabledAfter(Head(changes))
    /\ isActive' = IF Activates(Head(changes)) THEN TRUE
                   ELSE IF Deactivates(Head(changes)) THEN FALSE ELSE isActive
    /\ listening' = IF Activates(Head(changes)) THEN TRUE
                    ELSE IF Deactivates(Head(changes)) THEN FALSE ELSE listening
    /\ IF Deactivates(Head(changes))
       THEN resetSequence(timers)
       ELSE UNCHANGED <<currentSequence, timers, timeoutId, nextTimerId>>
    /\ sequenceTimeout' = TimeoutAfter(Head(changes))
    /\ store' = StoreAfterTimeout(Head(changes))
    /\ IF Head(changes).changed /\ Head(changes).loadedBindings.type = "string"
       THEN /\ bindingsData' = Head(changes).loadedBindings.value
            /\ parserBindings' = ParsedText[Head(changes).loadedBindings.value].bindings
            /\ parserLog' = ParsedText[Head(changes).loadedBindings.value].warnings
            /\ bindings' = ParsedText[Head(changes).loadedBindings.value].bindings
            /\ conflicts' = detectConflicts(ParsedText[Head(changes).loadedBindings.value].bindings)
            /\ storedBindings' = Head(changes).loadedBindings
            /\ Observe("loadBindings", <<>>)
       ELSE /\ UNCHANGED <<bindingsData, parserBindings, parserLog, bindings, conflicts,
                           storedBindings>>
            /\ Observe("handleStorageChange", <<>>)
    /\ changes' = Notified(Notified(Notified(Tail(changes),
                                             store, StoreAfterFlag(Head(changes)),
                                             storedBindings, storedBindings),
                                    StoreAfterFlag(Head(changes)), StoreAfterTimeout(Head(changes)),
                                    storedBindings, storedBindings),
                           store, store, storedBindings, storedBindings')
    /\ emitted' = <<>>
    /\ handled' = FALSE
    /\ UNCHANGED <<settingsPc, getResult, settings, pluginPc>>
    /\ UNCHANGED pluginFrame

\* the message loadBindings, which the background broadcasts with the bind
\* file, reaches the listener of the page
loadBindingsMessage ==
    /\ pluginPc = "ready"
    /\ Len(changes) < MaxChanges
    /\ pluginLoadBindings

\* clearBindings of the settings page: the key loadedBindings is removed
clearBindings ==
    /\ storedBindings # NoBindings
    /\ Len(changes) < MaxChanges
    /\ storedBindings' = NoBindings
    /\ changes' = IF pluginPc = "ready"
                  THEN Append(changes, ChangeOf(store, store, storedBindings, NoBindings))
                  ELSE changes
    /\ UNCHANGED <<engineFields, store, parserVars, isActive, pluginPc, settings>>
    /\ UNCHANGED pluginFrame

\* the content script of a page has run: the engine and the plugin are
\* constructed, loadSettings() and initialize() are both awaiting their get
PageInit ==
    /\ bindings = <<>>
    /\ currentSequence = <<>>
    /\ sequenceTimeout = 1500
    /\ timeoutId = 0
    /\ enabled = TRUE
    /\ conflicts = {}
    /\ timers = {}
    /\ nextTimerId = 1
    /\ listening = FALSE
    /\ settingsPc = "awaiting"
    /\ store \in PageStores
    /\ getResult = store
    /\ emitted = <<>>
    /\ handled = FALSE
    /\ op = "constructor"
    /\ fed = <<>>
    /\ reloaded = FALSE
    /\ bindingsData = PageText.value
    /\ parserBindings = <<>>
    /\ parserLog = <<>>
    /\ storedBindings \in {NoBindings, PageText}
    /\ changes = <<>>
    /\ extensionState = [enabled |-> "true", bindingsLoaded |-> FALSE, totalBindings |-> 0]
    /\ badgeText = ""
    /\ tasks = <<>>
    /\ isActive = FALSE
    /\ pluginPc = "awaiting"
    /\ settings = [sequenceTimeout |-> store.sequenceTimeout,
                   hotkeyEnabled |-> store.hotkeyEnabled,
                   loadedBindings |-> storedBindings]
    /\ pages = <<>>
    /\ changeMade = FALSE

PageNext ==
    \/ LoadSettings
    \/ \E resolved \in BOOLEAN : pluginInitialize(resolved)
    \/ pluginHandleStorageChange
    \/ loadBindingsMessage
    \/ clearBindings
    \/ KeyDown
    \/ TimerFires

PageSpec == PageInit /\ [][PageNext]_vars

----------------------------------------------------------------------------
(* Several pages on one settings store (src/content.js,
   src/src/hotkeyManager.js): each page runs its own engine and plugin, and
   chrome.storage.onChanged tells every page with a registered listener of
   every write that changed a value *)

Pages == 1..MaxPages

\* the stores the pages start on
InstanceStores ==
    { [sequenceTimeout |-> 1500, hotkeyEnabled |-> "true"],
      [sequenceTimeout |-> 1500, hotkeyEnabled |-> "false"],
      [sequenceTimeout |-> 9000, hotkeyEnabled |-> "true"] }

\* the values a write from outside the pages gives to sequenceTimeout
ExternalTimeouts == {2000, 9000}

\* the event of a write, put into the queue of every page whose listener is
\* registered, and of the page that writes while it registers its own
Delivered(instances, writer, oldStore, newStore) ==
    [ j \in Pages |->
        IF j = writer \/ instances[j].pluginPc = "ready"
        THEN [instances[j] EXCEPT
                !.inbox = Notified(@, oldStore, newStore, NoBindings, NoBindings)]
        ELSE instances[j] ]

instanceFrame == <<engineFields, parserVars, storedBindings, changes, extensionState, badgeText,
                   tasks, isActive, pluginPc, settings>>

\* loadSettings of the engine of page i, its get resolved
pageLoadSettings(i) ==
    /\ pages[i].settingsPc = "awaiting"
    /\ pages' = [pages EXCEPT
                   ![i].settingsPc = "done",
                   ![i].sequenceTimeout = IF pages[i].getResult.sequenceTimeout = 0 THEN 1500
                                          ELSE pages[i].getResult.sequenceTimeout,
                   ![i].enabled = (pages[i].getResult.hotkeyEnabled # "false")]
    /\ UNCHANGED <<store, changeMade>>
    /\ UNCHANGED instanceFrame

\* initialize of page i: sequenceTimeout after setSequenceTimeout
PageInitTimeout(page) ==
    IF page.getResult.sequenceTimeout # 0
    THEN Max(500, Min(5000, page.getResult.sequenceTimeout))
    ELSE page.sequenceTimeout

\* initialize of page i: the store after the saveSettings of setSequenceTimeout
PageInitStoreTimeout(page) ==
    IF page.getResult.sequenceTimeout # 0
    THEN [sequenceTimeout |-> PageInitTimeout(page), hotkeyEnabled |-> Flag(page.enabled)]
    ELSE store

\* initialize of page i: the store after activate()
PageInitStoreActive(page) ==
    IF page.getResult.hotkeyEnabled # "false"
    THEN [sequenceTimeout |-> PageInitTimeout(page), hotkeyEnabled |-> "true"]
    ELSE PageInitStoreTimeout(page)

\* initialize of the plugin of page i, its get resolved: setSequenceTimeout,
\* activate(), and the storage listener is registered; the get of the engine,
\* issued before the get of the plugin, has been answered before it
pageInitialize(i) ==
    /\ pages[i].settingsPc = "done"
    /\ pages[i].pluginPc = "awaiting"
    /\ store' = PageInitStoreActive(pages[i])
    /\ pages' = Delivered(
                  Delivered(
                    [pages EXCEPT
                       ![i].pluginPc = "ready",
                       ![i].sequenceTimeout = PageInitTimeout(pages[i]),
                       ![i].enabled = (pages[i].getResult.hotkeyEnabled # "false" \/ pages[i].enabled),
                       ![i].isActive = (pages[i].getResult.hotkeyEnabled # "false")],
                    i, store, PageInitStoreTimeout(pages[i])),
                  i, PageInitStoreTimeout(pages[i]), PageInitStoreActive(pages[i]))
    /\ \A j \in Pages : Len(pages'[j].inbox) <= MaxInbox
    /\ UNCHANGED changeMade
    /\ UNCHANGED instanceFrame

\* handleStorageChange of a page: the event makes it call activate()
PageActivates(page, change) == change.hotkeyEnabled = "true" /\ ~page.isActive

\* handleStorageChange of a page: the event makes it call deactivate()
PageDeactivates(page, change) == change.hotkeyEnabled \in {"false", "absent"} /\ page.isActive

\* enabled of the engine of the page after that activate() or deactivate()
PageEnabledAfter(page, change) ==
    IF PageActivates(page, change) THEN TRUE
    ELSE IF PageDeactivates(page, change) THEN FALSE ELSE page.enabled

\* the store after the saveSettings of that activate() or deactivate()
PageStoreAfterFlag(page, change) ==
    IF PageActivates(page, change) \/ PageDeactivates(page, change)
    THEN [sequenceTimeout |-> page.sequenceTimeout,
          hotkeyEnabled |-> Flag(PageEnabledAfter(page, change))]
    ELSE store

\* sequenceTimeout of the engine of the page after setSequenceTimeout(newValue)
PageTimeoutAfter(page, change) ==
    IF change.sequenceTimeout = -1 THEN page.sequenceTimeout
    ELSE Max(500, Min(5000, change.sequenceTimeout))

\* the store after the saveSettings of that setSequenceTimeout
PageStoreAfterTimeout(page, change) ==
    IF change.sequenceTimeout = -1 THEN PageStoreAfterFlag(page, change)
    ELSE [sequenceTimeout |-> PageTimeoutAfter(page, change),
          hotkeyEnabled |-> Flag(PageEnabledAfter(page, change))]

\* handleStorageChange of page i on the oldest event in its queue
pageHandleStorageChange(i) ==
    /\ pages[i].pluginPc = "ready"
    /\ pages[i].inbox # <<>>
    /\ store' = PageStoreAfterTimeout(pages[i], Head(pages[i].inbox))
    /\ pages' = Delivered(
                  Delivered(
                    [pages EXCEPT
                       ![i].inbox = Tail(@),
                       ![i].enabled = PageEnabledAfter(pages[i], Head(pages[i].inbox)),
                       ![i].isActive = IF PageActivates(pages[i], Head(pages[i].inbox)) THEN TRUE
                                       ELSE IF PageDeactivates(pages[i], Head(pages[i].inbox))
                                            THEN FALSE ELSE pages[i].isActive,
                       ![i].sequenceTimeout = PageTimeoutAfter(pages[i], Head(pages[i].inbox))],
                    i, store, PageStoreAfterFlag(pages[i], Head(pages[i].inbox))),
                  i, PageStoreAfterFlag(pages[i], Head(pages[i].inbox)),
                  PageStoreAfterTimeout(pages[i], Head(pages[i].inbox)))
    /\ \A j \in Pages : Len(pages'[j].inbox) <= MaxInbox
    /\ UNCHANGED changeMade
    /\ UNCHANGED instanceFrame

\* the stores one write from outside the pages can leave: sequenceTimeout
\* or hotkeyEnabled has a new value
ExternalStores ==
    { [store EXCEPT !.sequenceTimeout = t] : t \in ExternalTimeouts \ {store.sequenceTimeout} }
    \cup { [store EXCEPT !.hotkeyEnabled = Negated(store.hotkeyEnabled)] }

\* the one write from outside the pages (the settings page, the background)
externalChange ==
    /\ ~changeMade
    /\ \E newStore \in ExternalStores :
          /\ store' = newStore
          /\ pages' = Delivered(pages, 0, store, newStore)
    /\ \A j \in Pages : Len(pages'[j].inbox) <= MaxInbox
    /\ changeMade' = TRUE
    /\ UNCHANGED instanceFrame

\* the content scripts of the pages have run: every engine and plugin is
\* constructed and awaits the get it issued on the same store
InstancesInit ==
    /\ bindings = <<>>
    /\ currentSequence = <<>>
    /\ sequenceTimeout = 1500
    /\ timeoutId = 0
    /\ enabled = TRUE
    /\ conflicts = {}
    /\ timers = {}
    /\ nextTimerId = 1
    /\ listening = FALSE
    /\ settingsPc = "awaiting"
    /\ store \in InstanceStores
    /\ getResult = store
    /\ emitted = <<>>
    /\ handled = FALSE
    /\ op = "constructor"
    /\ fed = <<>>
    /\ reloaded = FALSE
    /\ bindingsData = <<>>
    /\ parserBindings = <<>>
    /\ parserLog = <<>>
    /\ storedBindings = NoBindings
    /\ changes = <<>>
    /\ extensionState = [enabled |-> "true", bindingsLoaded |-> FALSE, totalBindings |-> 0]
    /\ badgeText = ""
    /\ tasks = <<>>
    /\ isActive = FALSE
    /\ pluginPc = "none"
    /\ settings = [sequenceTimeout |-> 0, hotkeyEnabled |-> "absent", loadedBindings |-> NoBindings]
    /\ changeMade = FALSE
    /\ pages = [ i \in Pages |->
                   [ sequenceTimeout |-> 1500, enabled |-> TRUE, isActive |-> FALSE,
                     settingsPc |-> "awaiting", pluginPc |-> "awaiting",
                     getResult |-> store, inbox |-> <<>> ] ]

InstancesNext ==
    \/ \E i \in Pages : pageLoadSettings(i)
    \/ \E i \in Pages : pageInitialize(i)
    \/ \E i \in Pages : pageHandleStorageChange(i)
    \/ externalChange

\* the event loop of a page runs every continuation and every listener call
\* that is ready
InstancesFairness ==
    \A i \in Pages :
        /\ WF_vars(pageLoadSettings(i))
        /\ WF_vars(pageInitialize(i))
        /\ WF_vars(pageHandleStorageChange(i))

InstancesSpec == InstancesInit /\ [][InstancesNext]_vars /\ InstancesFairness

----------------------------------------------------------------------------
(* Vocabulary of the properties *)

\* the engine looks at this key press: it is enabled, and the press is in an
\* editable context or carries Ctrl or Alt
AcceptedPress(event) ==
    /\ listening
    /\ enabled
    /\ isEditableContext(event.target) \/ event.altKey \/ event.ctrlKey

\* pendingTokens with the token of this press appended
Candidate(event) == Append(currentSequence, eventToKeyString(event))

TableKeys == { bindings[i].key : i \in 1..Len(bindings) }

\* the serialized token list is a key of the current table
IsKey(tokens) == Join(tokens, SP) \in TableKeys

\* the token list is a strict prefix of the token list of some key
IsPrefixOfKey(tokens) == IsStrictTokenPrefix(tokens, bindings)

\* some strictly shorter, non-empty beginning of the token list is a key
HasShorterKey(tokens) == \E k \in 1..(Len(tokens) - 1) : IsKey(SubSeq(tokens, 1, k))

ActionOf(tokens) == MapGet(bindings, Join(tokens, SP)).action

Idle == currentSequence = <<>> /\ timeoutId = 0 /\ timers = {}

IdleAfter == currentSequence' = <<>> /\ timeoutId' = 0 /\ timers' = {}

tokAltM == <<"A","l","t","+","m">>
tokG == <<"g">>
tokA == <<"a">>
tokF == <<"f">>

----------------------------------------------------------------------------
(* Properties *)

\* C1. Exact match: an accepted key press whose serialized candidate is a key
\* of the table emits that binding's action exactly once and leaves the engine
\* Idle (no pending tokens, no timer), also when the candidate is a strict
\* prefix of another key.
C1_ExactMatch ==
    [][ \A event \in Events :
          (op' = "handleKeyDown" /\ AcceptedPress(event) /\ IsKey(Candidate(event))
             /\ handleKeyDown(event))
          => /\ Len(emitted') = 1
             /\ emitted'[1].action = ActionOf(Candidate(event))
             /\ IdleAfter ]_vars

\* an exact match on a two-token key that is also the beginning of a longer key
C1_Witness ==
    /\ op = "handleKeyDown"
    /\ Len(emitted) = 1
    /\ Len(emitted[1].pending) = 2
    /\ IsPrefixOfKey(emitted[1].pending)
    /\ Idle

\* C2. Prefix match: an accepted key press whose candidate is no key but a
\* strict prefix of one emits nothing, keeps the candidate as pendingTokens and
\* leaves exactly one timer armed, created by this press; every timer armed
\* before is cancelled.
C2_PrefixMatch ==
    [][ \A event \in Events :
          (op' = "handleKeyDown" /\ AcceptedPress(event)
             /\ ~IsKey(Candidate(event)) /\ IsPrefixOfKey(Candidate(event))
             /\ handleKeyDown(event))
          => /\ emitted' = <<>>
             /\ currentSequence' = Candidate(event)
             /\ Cardinality(timers') = 1
             /\ \A t \in timers' : t.id = timeoutId' /\ t.id >= nextTimerId
             /\ timers \cap timers' = {} ]_vars

\* a second prefix press in a row: the first timer replaced by the second
C2_Witness ==
    /\ op = "handleKeyDown"
    /\ Len(currentSequence) = 2
    /\ timeoutId = 2
    /\ timers = {[id |-> 2, delay |-> sequenceTimeout]}

\* C3. Dead end: an accepted key press whose candidate is neither a key nor a
\* strict prefix of one emits nothing and leaves the engine Idle; the token is
\* not tried again as the first token of a new sequence, even when the token
\* alone is a key or the beginning of one.
C3_DeadEnd ==
    [][ \A event \in Events :
          (op' = "handleKeyDown" /\ AcceptedPress(event)
             /\ ~IsKey(Candidate(event)) /\ ~IsPrefixOfKey(Candidate(event))
             /\ handleKeyDown(event))
          => /\ emitted' = <<>>
             /\ IdleAfter ]_vars

\* Alt+m then g against a table where g alone is a key and Alt+m g leads nowhere
C3_Witness ==
    /\ op = "handleKeyDown"
    /\ fed = <<tokAltM, tokG>>
    /\ IsKey(<<tokG>>)
    /\ ~IsKey(fed) /\ ~IsPrefixOfKey(fed)
    /\ emitted = <<>>
    /\ Idle

\* C4. Timeout law: the timeout firing while Pending leaves the engine Idle and
\* emits nothing, and the key press accepted right after it is evaluated on the
\* single new token, as from Idle.
C4_TimeoutLaw ==
    [][ /\ \A t \in timers :
             (op' = "timeout" /\ currentSequence # <<>> /\ timeoutCallback(t))
             => IdleAfter /\ emitted' = <<>>
        /\ \A event \in Events :
             (op = "timeout" /\ op' = "handleKeyDown" /\ AcceptedPress(event)
                /\ handleKeyDown(event))
             => LET token == <<eventToKeyString(event)>>
                IN  IF IsKey(token)
                    THEN Len(emitted') = 1 /\ emitted'[1].action = ActionOf(token) /\ IdleAfter
                    ELSE IF IsPrefixOfKey(token)
                    THEN emitted' = <<>> /\ currentSequence' = token
                    ELSE emitted' = <<>> /\ IdleAfter ]_vars

\* the timeout has fired on a pending sequence; the engine is ready for the next press
C4_Witness ==
    /\ op = "timeout"
    /\ Idle
    /\ emitted = <<>>
    /\ nextTimerId > 1
    /\ listening /\ enabled
    /\ bindings # <<>>

\* the table compiled from the lines for M-m f, M-m g a and M-m g, in that order
ScenarioTable == parse(Join(SubSeq(ConfigFile, 2, 4), NL))

InsertAlpha == [type |-> "insert", text |-> <<"U+03B1">>]
InsertGamma == [type |-> "insert", text |-> <<"U+03B3">>]

\* C5, as stated. With the table of the three lines, the presses Alt+m, g, a
\* fed from Idle end with an exact match on Alt+m g a that emits Insert(alpha).
C5_AsStated ==
    (bindings = ScenarioTable /\ op = "handleKeyDown" /\ fed = <<tokAltM, tokG, tokA>>)
    => /\ Len(emitted) = 1
       /\ emitted[1].action = InsertAlpha
       /\ emitted[1].pending = <<tokAltM, tokG, tokA>>

\* C5, amended. With the table of the three lines, the presses Alt+m, g, a fed
\* from Idle complete Alt+m g on the second press, which emits Insert(gamma)
\* and returns to Idle; the third press, a alone, is a dead end: it emits
\* nothing and leaves the engine Idle.
C5_Scenario ==
    (bindings = ScenarioTable /\ op = "handleKeyDown")
    => /\ fed = <<tokAltM, tokG>>
          => /\ Len(emitted) = 1
             /\ emitted[1].action = InsertGamma
             /\ emitted[1].pending = <<tokAltM, tokG>>
             /\ Idle
       /\ fed = <<tokAltM, tokG, tokA>>
          => emitted = <<>> /\ Idle

\* the three presses have been fed against the scenario's table
C5_Witness ==
    /\ bindings = ScenarioTable
    /\ op = "handleKeyDown"
    /\ fed = <<tokAltM, tokG, tokA>>

\* C6, as stated. Shadowing: the engine never emits the action of a binding
\* when a strictly shorter beginning of its sequence is a key of the table
\* current at the emission, whatever the interleaving of operations.
C6_AsStated ==
    emitted # <<>> => ~HasShorterKey(emitted[1].pending)

\* C6, amended. Shadowing holds for every sequence during which the table was
\* not replaced: unless loadBindings ran while the sequence was pending, the
\* engine never emits the action of a binding when a strictly shorter
\* beginning of its sequence is a key of the table current at the emission.
C6_Shadowing ==
    [][ (emitted' # <<>> /\ ~reloaded)
        => ~\E k \in 1..(Len(emitted'[1].pending) - 1) :
               Join(SubSeq(emitted'[1].pending, 1, k), SP) \in TableKeys' ]_vars

\* the shorter member of the conflict Alt+m g a <-> Alt+m g has fired
C6_Witness ==
    /\ emitted # <<>>
    /\ emitted[1].pending = <<tokAltM, tokG>>
    /\ <<"A","l","t","+","m"," ","g"," ","a"," ","<","-",">"," ","A","l","t","+","m"," ","g">> \in conflicts

\* C7. One action or none: an operation emits at most one action, and emits
\* one only if it is the handling of an accepted key press whose candidate is
\* a key of the table; every other key press and every other operation emits
\* nothing.
C7_OneActionOrNone ==
    [][ /\ Len(emitted') <= 1
        /\ op' # "handleKeyDown" => emitted' = <<>>
        /\ emitted' # <<>>
           => \E event \in Events :
                AcceptedPress(event) /\ IsKey(Candidate(event)) /\ handleKeyDown(event)
        /\ \A event \in Events :
             (op' = "handleKeyDown" /\ ~(AcceptedPress(event) /\ IsKey(Candidate(event)))
                /\ handleKeyDown(event))
             => emitted' = <<>> ]_vars

\* a second prefix match in a row: handled, nothing emitted
C7_Witness ==
    /\ op = "handleKeyDown"
    /\ handled
    /\ emitted = <<>>
    /\ Len(currentSequence) = 2
    /\ IsPrefixOfKey(currentSequence)

\* C8. Prefix law: when the tokens T1..Tn of a key S, no strictly shorter
\* beginning of which is a key, are fed one at a time from Idle with nothing
\* in between, the engine is Pending with pendingTokens T1..Ti after each of
\* the first n-1 and emits exactly S's action on Tn, ending Idle.
C8_PrefixLaw ==
    \A i \in 1..Len(bindings) :
        LET S == Split(bindings[i].key, SP)
        IN  (/\ ~HasShorterKey(S)
             /\ op = "handleKeyDown"
             /\ fed # <<>>
             /\ Len(fed) <= Len(S)
             /\ SubSeq(S, 1, Len(fed)) = fed)
            => IF Len(fed) < Len(S)
               THEN /\ currentSequence = fed
                    /\ emitted = <<>>
                    /\ timeoutId # 0
                    /\ Cardinality(timers) = 1
                    /\ \A t \in timers : t.id = timeoutId
               ELSE /\ emitted # <<>>
                    /\ Len(emitted) = 1
                    /\ emitted[1].action = bindings[i].value.action
                    /\ Idle

\* the three tokens of Alt+m g a fed against a table without Alt+m g
C8_Witness ==
    /\ op = "handleKeyDown"
    /\ fed = <<tokAltM, tokG, tokA>>
    /\ IsKey(fed)
    /\ ~HasShorterKey(fed)
    /\ emitted # <<>>

\* C9. Disabled invariant: whenever the enabled flag is false, pendingTokens
\* is empty and no timer is armed.
C9_DisabledInvariant ==
    ~enabled => Idle

\* C10. While the engine is disabled a key press changes nothing:
\* pendingTokens, the timer, the table and the conflicts stay as they are,
\* no action is emitted and the default effect is not suppressed.
C10_DisabledNoOp ==
    [][ \A event \in Events :
          (op' = "handleKeyDown" /\ ~enabled /\ handleKeyDown(event))
          => /\ UNCHANGED <<currentSequence, timeoutId, timers, bindings, conflicts>>
             /\ emitted' = <<>>
             /\ handled' = FALSE ]_vars

\* a key has been pressed on a disabled engine that holds a table
C10_Witness ==
    /\ op = "handleKeyDown"
    /\ ~enabled
    /\ listening
    /\ IsKey(<<tokG>>)

\* what an accepted press does, by the class of its candidate: a key fires its
\* action once and ends Idle, a strict prefix is kept, anything else is dropped
ProcessedNormally(event) ==
    IF IsKey(Candidate(event))
    THEN /\ Len(emitted') = 1
         /\ emitted'[1].action = ActionOf(Candidate(event))
         /\ IdleAfter
         /\ handled' = TRUE
    ELSE IF IsPrefixOfKey(Candidate(event))
    THEN /\ currentSequence' = Candidate(event)
         /\ emitted' = <<>>
         /\ handled' = TRUE
    ELSE /\ IdleAfter
         /\ emitted' = <<>>
         /\ handled' = FALSE

\* C11. A key press outside an editable context that carries neither Ctrl nor
\* Alt is a no-op in every engine state: the pending tokens, the running timer
\* and its id are unchanged, nothing is emitted and the default is not
\* suppressed; a press carrying Ctrl or Alt is processed normally outside an
\* editable context too.
C11_NonEditableNoOp ==
    [][ \A event \in Events :
          (op' = "handleKeyDown" /\ ~isEditableContext(event.target) /\ handleKeyDown(event))
          => IF ~(event.ctrlKey \/ event.altKey)
             THEN /\ UNCHANGED <<currentSequence, timers, timeoutId, nextTimerId>>
                  /\ emitted' = <<>>
                  /\ handled' = FALSE
             ELSE enabled => ProcessedNormally(event) ]_vars

\* an enabled engine with a sequence pending has just ignored a key press
C11_Witness ==
    /\ op = "handleKeyDown"
    /\ listening /\ enabled
    /\ currentSequence # <<>>
    /\ timers # {}
    /\ handled = FALSE

\* C12. Default suppression: a key press has its default effect suppressed
\* (preventDefault and stopPropagation, handled = TRUE) if and only if it is an
\* accepted press whose candidate is a key or a strict prefix of a key; dead
\* ends, presses while disabled and ignored non-editable presses are not
\* suppressed.
C12_DefaultSuppression ==
    [][ \A event \in Events :
          (op' = "handleKeyDown" /\ handleKeyDown(event))
          => (handled' = TRUE
                <=> /\ AcceptedPress(event)
                    /\ IsKey(Candidate(event)) \/ IsPrefixOfKey(Candidate(event))) ]_vars

\* the second press of Alt+m g was suppressed as a prefix match
C12_Witness ==
    /\ op = "handleKeyDown"
    /\ handled = TRUE
    /\ fed = <<tokAltM, tokG>>
    /\ currentSequence = <<tokAltM, tokG>>

\* key a is, token by token, a strict prefix of key b
TokenStrictPrefix(a, b) ==
    LET ta == Split(a, SP)
        tb == Split(b, SP)
    IN  Len(ta) < Len(tb) /\ SubSeq(tb, 1, Len(ta)) = ta

\* the descriptions "k1 <-> k2" of the pairs of keys of the map, in insertion
\* order, of which one is a strict token-prefix of the other
ExpectedConflicts(map) ==
    { map[i].key \o <<" ","<","-",">"," ">> \o map[j].key :
        <<i, j>> \in { p \in (1..Len(map)) \X (1..Len(map)) :
                         /\ p[1] < p[2]
                         /\ \/ TokenStrictPrefix(map[p[1]].key, map[p[2]].key)
                            \/ TokenStrictPrefix(map[p[2]].key, map[p[1]].key) } }

\* C13. loadBindings(table) replaces the whole table and the conflict set and
\* leaves the pending tokens, the armed timer, the enabled flag and the
\* configured timeout unchanged; the next accepted key press forms its
\* candidate from the retained tokens plus its own and is matched against the
\* new table only.
C13_LoadBindingsFrame ==
    [][ /\ \A map \in ParsedTables :
             (op' = "loadBindings" /\ loadBindings(map))
             => /\ bindings' = map
                /\ conflicts' = ExpectedConflicts(map)
                /\ UNCHANGED <<currentSequence, timers, timeoutId, enabled, sequenceTimeout>>
        /\ \A event \in Events :
             (op' = "handleKeyDown" /\ reloaded /\ AcceptedPress(event) /\ handleKeyDown(event))
             => ProcessedNormally(event) ]_vars

\* a table was loaded over a pending sequence that is a key of the new table
C13_Witness ==
    /\ op = "loadBindings"
    /\ reloaded
    /\ currentSequence = <<tokAltM, tokG>>
    /\ IsKey(currentSequence)
    /\ timers # {}

\* C14. No dangling timer: at most one timeout callback is outstanding, it is
\* the one the engine holds the id of, and it belongs to a sequence that is
\* still pending; so a callback never runs for a Pending state that an exact
\* match, a dead end, setEnabled(false), stopListening or an earlier timeout
\* has abandoned.
C14_NoDanglingTimer ==
    /\ Cardinality(timers) <= 1
    /\ \A t \in timers : t.id = timeoutId /\ currentSequence # <<>>

\* the timer of Alt+m was replaced by the timer of Alt+m g
C14_Witness ==
    /\ currentSequence = <<tokAltM, tokG>>
    /\ timeoutId = 2
    /\ Cardinality(timers) = 1

\* C15. Idle/Pending invariant: in every state between two handler runs (key
\* handler, timeout callback, setEnabled, loadBindings, setSequenceTimeout,
\* stopListening) a timer is armed if and only if the pending tokens are not
\* empty.
C15_TimerIffPending ==
    /\ (timeoutId # 0) <=> (currentSequence # <<>>)
    /\ (timers # {}) <=> (currentSequence # <<>>)

\* Pending after the first press of a sequence, with its timer armed
C15_Witness ==
    /\ op = "handleKeyDown"
    /\ currentSequence = <<tokAltM>>
    /\ timers = {[id |-> 1, delay |-> 1500]}
    /\ timeoutId = 1

\* C16. Timeout range invariant: in every reachable state the configured
\* sequence timeout lies in [500, 5000] ms, whatever value was passed to
\* setSequenceTimeout and whatever value loadSettings read from the settings
\* store.
C16_TimeoutRange ==
    sequenceTimeout \in 500..5000

\* C17. Changing the timeout while Pending leaves the pending tokens and the
\* armed timer, with the duration it was armed with, unchanged; the new value
\* takes effect when the next prefix-matching press re-arms the timer, which
\* is then armed with the value configured at that moment.
C17_TimeoutChangeWhilePending ==
    [][ /\ \A timeout \in TimeoutInputs :
             (op' = "setSequenceTimeout" /\ setSequenceTimeout(timeout))
             => UNCHANGED <<currentSequence, timers, timeoutId>>
        /\ \A event \in Events :
             (op' = "handleKeyDown" /\ AcceptedPress(event) /\ ~IsKey(Candidate(event))
                /\ IsPrefixOfKey(Candidate(event)) /\ handleKeyDown(event))
             => timers' = {[id |-> timeoutId', delay |-> sequenceTimeout]} ]_vars

\* the timeout was changed while Pending: the armed timer keeps the old duration
C17_Witness ==
    /\ op = "setSequenceTimeout"
    /\ currentSequence # <<>>
    /\ \E t \in timers : t.id = timeoutId /\ t.delay # sequenceTimeout

\* C18. Sink ordering: when the action sink is invoked for an exact match the
\* pending tokens have already been cleared and the timer cancelled, so the
\* sink, whether it succeeds or fails, runs against an engine that is Idle.
C18_SinkRunsIdle ==
    emitted # <<>> => emitted[1].pending = <<>> /\ emitted[1].timerId = 0

\* C19. Sink failure is contained: if the action sink throws while applying
\* the action of an exact match, the key handler still completes, the engine
\* ends the press Idle (no pending tokens, no timer) with the key reported as
\* handled, and the table, the conflicts, the enabled flag and the timeout are
\* unchanged, so later presses are matched as after a successful action.
C19_SinkFailureContained ==
    [][ (emitted' # <<>> /\ emitted'[1].threw)
        => /\ IdleAfter
           /\ handled' = TRUE
           /\ UNCHANGED <<bindings, conflicts, enabled, sequenceTimeout, listening>> ]_vars

\* the sink threw on the action of Alt+m f and the engine is Idle
C19_Witness ==
    /\ emitted # <<>>
    /\ emitted[1].threw
    /\ emitted[1].pending = <<tokAltM, tokF>>
    /\ Idle
    /\ handled = TRUE

\* C20. Conflict set correctness: in every reachable state the conflict set
\* holds an entry for a pair of distinct keys of the current table if and only
\* if the token list of one is a strict prefix of the token list of the other,
\* with nothing left over from earlier tables; Alt+m and Alt+m g conflict,
\* Alt+m f and Alt+m g do not.
C20_ConflictSet ==
    /\ conflicts = ExpectedConflicts(bindings)
    /\ hasConflict(tokAltM, Join(<<tokAltM, tokG>>, SP))
    /\ ~hasConflict(Join(<<tokAltM, tokF>>, SP), Join(<<tokAltM, tokG>>, SP))

\* the table of Alt+m f, Alt+m g a and Alt+m g is loaded: one conflict is
\* flagged, the pair Alt+m f and Alt+m g is not
C20_Witness ==
    /\ op = "loadBindings"
    /\ bindings = ScenarioTable
    /\ Cardinality(conflicts) = 1

----------------------------------------------------------------------------
(* Claims about the conflict report and the parser *)

\* the text of the lines for M-m f, M-m g a and M-m g, in that order
ScenarioText == Join(SubSeq(ConfigFile, 2, 4), NL)

\* the texts made of the lines of a text in every order
LineOrders(text) ==
    LET lines == Split(text, NL)
    IN  { Join([i \in 1..Len(lines) |-> lines[p[i]]], NL) :
            p \in Permutations(1..Len(lines)) }

\* the conflict descriptions the engine reports for the table of a text
ConflictsOfText(text) == detectConflicts(ParsedText[text].bindings)

\* the unordered pair of sequences a conflict description names
PairOf(description) ==
    LET ends == Split(description, <<" ","<","-",">"," ">>)
    IN  {ends[1], ends[2]}

\* the position of a key in the table's insertion order
KeyIndex(map, key) == CHOOSE i \in 1..Len(map) : map[i].key = key

\* C21 as stated: after the plugin loaded a text, every text holding the same
\* lines in another order yields the same set of conflict descriptions, and
\* the text for M-m f, M-m g a, M-m g reports `Alt+m g <-> Alt+m g a`.
C21_AsStated ==
    op = "loadBindings" =>
        /\ \A text \in LineOrders(bindingsData) : ConflictsOfText(text) = conflicts
        /\ bindingsData = ScenarioText =>
               conflicts = { <<"A","l","t","+","m"," ","g"," ","<","-",">"," ","A","l","t","+","m"," ","g"," ","a">> }

\* C21. Conflict symmetry: after the plugin loaded a text, every text holding
\* the same lines in another order flags the same unordered pairs of sequences;
\* each description names its pair in registration order, the sequence
\* registered earlier first, so the text for M-m f, M-m g a, M-m g reports
\* `Alt+m g a <-> Alt+m g`.
C21_ConflictSymmetry ==
    op = "loadBindings" =>
        /\ \A text \in LineOrders(bindingsData) :
               { PairOf(d) : d \in ConflictsOfText(text) } = { PairOf(d) : d \in conflicts }
        /\ \A d \in conflicts :
               LET ends == Split(d, <<" ","<","-",">"," ">>)
               IN  /\ Len(ends) = 2
                   /\ MapHas(bindings, ends[1]) /\ MapHas(bindings, ends[2])
                   /\ KeyIndex(bindings, ends[1]) < KeyIndex(bindings, ends[2])
        /\ bindingsData = ScenarioText =>
               conflicts = { <<"A","l","t","+","m"," ","g"," ","a"," ","<","-",">"," ","A","l","t","+","m"," ","g">> }

\* the scenario text is loaded, and the same lines in another order give
\* another description of the same pair
C21_Witness ==
    /\ op = "loadBindings"
    /\ bindingsData = ScenarioText
    /\ Cardinality(conflicts) = 1
    /\ \E text \in LineOrders(bindingsData) :
           /\ ConflictsOfText(text) # conflicts
           /\ { PairOf(d) : d \in ConflictsOfText(text) } = { PairOf(d) : d \in conflicts }

\* the outcome of the last press and the pending tokens of a run that starts
\* in Idle and is fed the tokens, computed from the table alone: a candidate
\* that is a key emits its action and is handled, one that begins a longer key
\* is kept and handled, any other is dropped and not handled
RECURSIVE RunFrom(_, _, _, _)
RunFrom(map, pending, last, tokens) ==
    IF tokens = <<>>
    THEN [pending |-> pending, actions |-> last.actions, handled |-> last.handled]
    ELSE LET candidate == Append(pending, Head(tokens))
         IN  IF MapHas(map, Join(candidate, SP))
             THEN RunFrom(map, <<>>,
                          [actions |-> <<MapGet(map, Join(candidate, SP)).action>>,
                           handled |-> TRUE],
                          Tail(tokens))
             ELSE IF IsStrictTokenPrefix(candidate, map)
             THEN RunFrom(map, candidate, [actions |-> <<>>, handled |-> TRUE], Tail(tokens))
             ELSE RunFrom(map, <<>>, [actions |-> <<>>, handled |-> FALSE], Tail(tokens))

\* C22. Determinism: whenever the engine, with its table, timeout and enabled
\* flag fixed, has been fed a list of accepted key presses from Idle with no
\* timeout firing in between, the actions emitted by the last press, its handled
\* flag, the pending tokens and the armed timer are those of the one run the
\* table and the presses determine; a timeout firing returns the engine to Idle,
\* where the history starts again.
C22_Determinism ==
    /\ (op = "handleKeyDown" /\ fed # Stale /\ fed # <<>>) =>
          LET run == RunFrom(bindings, <<>>, [actions |-> <<>>, handled |-> FALSE], fed)
          IN  /\ currentSequence = run.pending
              /\ [i \in 1..Len(emitted) |-> emitted[i].action] = run.actions
              /\ handled = run.handled
              /\ IF run.pending = <<>>
                 THEN timeoutId = 0 /\ timers = {}
                 ELSE timers = {[id |-> timeoutId, delay |-> sequenceTimeout]}
    /\ op = "timeout" => (currentSequence = <<>> /\ timeoutId = 0 /\ fed = <<>>)

\* three presses were fed from Idle: the second completed a sequence, the third
\* was a dead end
C22_Witness ==
    /\ op = "handleKeyDown"
    /\ bindings = ScenarioTable
    /\ fed = <<tokAltM, tokG, tokA>>
    /\ emitted = <<>>
    /\ ~handled
    /\ currentSequence = <<>>

\* the parser has run on bindingsData
Parsed == op \in {"parse", "loadBindings"}

\* a well-formed binding line: its trimmed content starts with the \bind
\* keyword and holds the keyword, white space and two non-empty quoted fields
WellFormedLine(line) ==
    /\ StartsWith(Trim(line), <<"\\","b","i","n","d">>)
    /\ bindRegex(Trim(line)) # <<>>

\* the text with every blank line, comment, non-directive line and malformed
\* \bind line removed
WellFormedText(text) == Join(SelectSeq(Split(text, NL), WellFormedLine), NL)

\* a table: entries with distinct keys, each holding a binding
IsTable(map) ==
    /\ \A i, j \in 1..Len(map) : map[i].key = map[j].key => i = j
    /\ \A i \in 1..Len(map) :
           /\ DOMAIN map[i].value = {"keySequence", "originalKeySequence", "command", "action"}
           /\ map[i].key = map[i].value.keySequence

\* C23. parse is total and line-local: for every configuration text it returns
\* a table, and the table equals the one it returns for the same text with
\* every blank line, every comment, every non-directive line and every
\* malformed \bind line removed.
C23_TotalLineLocal ==
    Parsed =>
        /\ IsTable(parserBindings)
        /\ parserBindings = parse(WellFormedText(bindingsData))

\* a text of three lines was parsed: a malformed \bind line stands between two
\* well-formed lines, which are both in the table
C23_Witness ==
    /\ op = "parse"
    /\ Len(Split(bindingsData, NL)) = 3
    /\ Split(bindingsData, NL)[2] = MalformedLine
    /\ Len(parserBindings) = 2
    /\ parserLog # <<>>

\* the elements of a string that white space separates
Words(s) == SelectSeq(Split(s, SP), LAMBDA piece : piece # <<>>)

\* C24. For every well-formed binding line, the key under which parse stores
\* the binding has no leading or trailing space and no empty token, and it has
\* as many space-separated tokens as the normalized key-spec has
\* white-space-separated elements, also when the key-spec is written with
\* leading, trailing or repeated spaces.
C24_KeyShape ==
    Parsed =>
        \A i \in 1..Len(parserBindings) :
            LET key == parserBindings[i].key
                tokens == Split(key, SP)
            IN  /\ key # <<>>
                /\ Head(key) # " "
                /\ key[Len(key)] # " "
                /\ \A k \in 1..Len(tokens) : tokens[k] # <<>>
                /\ Len(tokens) = Len(Words(parserBindings[i].value.keySequence))

\* a key-spec step written with a negated-modifier prefix
IsNegatedStep(step) ==
    \/ StartsWith(step, <<"~","S","-">>)
    \/ StartsWith(step, <<"~","C","-">>)
    \/ StartsWith(step, <<"~","M","-">>)

\* C25. Negated modifiers: for every key-spec step written with the prefix ~S-,
\* ~C- or ~M-, the token parse stores contains neither the ~ marker nor a
\* Shift, Ctrl or Alt label and is the key name alone; M-m ~S-plus is stored
\* as the sequence Alt+m plus.
C25_NegatedModifiers ==
    Parsed =>
        \A i \in 1..Len(parserBindings) :
            LET steps  == Split(parserBindings[i].value.originalKeySequence, SP)
                tokens == Split(parserBindings[i].key, SP)
            IN  /\ Len(tokens) = Len(steps)
                /\ \A k \in 1..Len(steps) :
                       IsNegatedStep(steps[k]) =>
                           /\ ~Includes(tokens[k], <<"~">>)
                           /\ ~Includes(tokens[k], <<"S","h","i","f","t">>)
                           /\ ~Includes(tokens[k], <<"C","t","r","l">>)
                           /\ ~Includes(tokens[k], <<"A","l","t">>)
                           /\ tokens[k] = normalizeKeySequence(SubSeq(steps[k], 4, Len(steps[k])))
                /\ parserBindings[i].value.originalKeySequence = <<"M","-","m"," ","~","S","-","p","l","u","s">> =>
                       parserBindings[i].key = <<"A","l","t","+","m"," ","p","l","u","s">>

\* C26. Every command-spec that starts with quote-insert, with or without an
\* inner or outer argument, is stored as an insert action whose text is
\* exactly one double-quote character.
C26_QuoteInsert ==
    Parsed =>
        \A i \in 1..Len(parserBindings) :
            StartsWith(parserBindings[i].value.command, <<"q","u","o","t","e","-","i","n","s","e","r","t">>) =>
                parserBindings[i].value.action = [type |-> "insert", text |-> <<"\"">>]

\* C27. Every command-spec that starts with specialchar-insert is stored as an
\* insert action whose text is the character of the first recognized
\* substring (hyphenation: soft hyphen, nobreakdash: non-breaking hyphen,
\* ligature-break: zero-width non-joiner, end-of-sentence: period, dots:
\* ellipsis), and the empty text when no substring is recognized.
C27_SpecialCharInsert ==
    Parsed =>
        \A i \in 1..Len(parserBindings) :
            LET command == parserBindings[i].value.command
                action  == parserBindings[i].value.action
            IN  StartsWith(command, <<"s","p","e","c","i","a","l","c","h","a","r","-","i","n","s","e","r","t">>) =>
                    /\ action.type = "insert"
                    /\ action.text =
                         IF Includes(command, <<"h","y","p","h","e","n","a","t","i","o","n">>) THEN <<"U+00AD">>
                         ELSE IF Includes(command, <<"n","o","b","r","e","a","k","d","a","s","h">>) THEN <<"U+2011">>
                         ELSE IF Includes(command, <<"l","i","g","a","t","u","r","e","-","b","r","e","a","k">>) THEN <<"U+200C">>
                         ELSE IF Includes(command, <<"e","n","d","-","o","f","-","s","e","n","t","e","n","c","e">>) THEN <<".">>
                         ELSE IF Includes(command, <<"d","o","t","s">>) THEN <<"U+2026">>
                         ELSE <<>>

\* C28. math-insert translation: a command-spec math-insert X is stored as an
\* insert action whose text is the Unicode symbol of X when X is in the symbol
\* table, \frac{}{} for \frac, \sqrt{} for \sqrt, and X itself for every
\* other X; the line for M-m f with math-insert \frac is stored under Alt+m f
\* with the text \frac{}{}, the line for M-m g a with math-insert \alpha
\* under Alt+m g a with the text U+03B1.
C28_MathInsert ==
    Parsed =>
        \A i \in 1..Len(parserBindings) :
            LET binding == parserBindings[i].value
                X == Trim(SubSeq(binding.command, 13, Len(binding.command)))
            IN  /\ (StartsWith(binding.command, <<"m","a","t","h","-","i","n","s","e","r","t"," ">>) /\ X # <<>>) =>
                       binding.action =
                           [type |-> "insert",
                            text |-> IF X = <<"\\","f","r","a","c">> THEN <<"\\","f","r","a","c","{","}","{","}">>
                                     ELSE IF X = <<"\\","s","q","r","t">> THEN <<"\\","s","q","r","t","{","}">>
                                     ELSE IF MapHas(symbolMap, X) THEN MapGet(symbolMap, X)
                                     ELSE X]
                /\ (binding.originalKeySequence = <<"M","-","m"," ","f">> /\ binding.command = <<"m","a","t","h","-","i","n","s","e","r","t"," ","\\","f","r","a","c">>) =>
                       /\ parserBindings[i].key = <<"A","l","t","+","m"," ","f">>
                       /\ binding.action = [type |-> "insert", text |-> <<"\\","f","r","a","c","{","}","{","}">>]
                /\ (binding.originalKeySequence = <<"M","-","m"," ","g"," ","a">> /\ binding.command = <<"m","a","t","h","-","i","n","s","e","r","t"," ","\\","a","l","p","h","a">>) =>
                       /\ parserBindings[i].key = <<"A","l","t","+","m"," ","g"," ","a">>
                       /\ binding.action = [type |-> "insert", text |-> <<"U+03B1">>]

\* every command-spec of the model that contains no `insert` is parsed to the
\* command action that holds it verbatim, and every table parse returns stores
\* such a binding like any other, under its normalized key-spec
UnknownCommandsStored ==
    /\ \A command \in CommandSpecs :
          ~Includes(command, <<"i","n","s","e","r","t">>) =>
              parseCommand(command) = [type |-> "command", command |-> command]
    /\ \A map \in ParsedTables : \A i \in 1..Len(map) :
          ~Includes(map[i].value.command, <<"i","n","s","e","r","t">>) =>
              /\ map[i].value.action = [type |-> "command", command |-> map[i].value.command]
              /\ map[i].key = normalizeKeySequence(map[i].value.originalKeySequence)

\* C29. Unknown commands are not errors: every command-spec that contains no
\* `insert` is stored as the command action holding the command-spec verbatim,
\* in a binding like any other, and an accepted key press that completes its
\* sequence takes the exact-match transition: the engine is Idle, the key is
\* handled, and the one action handed to executeAction is that command, so no
\* text is inserted.
C29_UnknownCommand ==
    [][ /\ UnknownCommandsStored
        /\ bindings \in ParsedTables
        /\ \A event \in Events :
             (op' = "handleKeyDown" /\ AcceptedPress(event) /\ IsKey(Candidate(event))
                /\ ActionOf(Candidate(event)).type = "command"
                /\ handleKeyDown(event))
             => /\ IdleAfter
                /\ handled'
                /\ Len(emitted') = 1
                /\ emitted'[1].action =
                      [type |-> "command",
                       command |-> MapGet(bindings, Join(Candidate(event), SP)).command]
                /\ ~emitted'[1].threw ]_vars

\* the key g, bound to buffer-new, was pressed: the command was handed to
\* executeAction, the key is handled and the engine is Idle
C29_Witness ==
    /\ op = "handleKeyDown"
    /\ Len(emitted) = 1
    /\ emitted[1].action = [type |-> "command", command |-> <<"b","u","f","f","e","r","-","n","e","w">>]
    /\ emitted[1].pending = <<tokG>>
    /\ handled
    /\ Idle

\* the bindings of the well-formed lines of a text, in the order of the lines
LineBindings(text) ==
    LET lines == SelectSeq(Split(text, NL), WellFormedLine)
    IN  [k \in 1..Len(lines) |-> parseBindLine(Trim(lines[k]))[1]]

\* C30. Last-write-wins: when several well-formed binding lines of one text
\* normalize to the same key sequence, the table has exactly one entry for that
\* sequence and its binding (source key-spec, command and action) is the one of
\* the last such line; the size of the table is the number of distinct
\* normalized sequences.
C30_LastWriteWins ==
    Parsed =>
        LET found == LineBindings(bindingsData)
        IN  /\ \A k \in 1..Len(found) :
                   /\ Cardinality({ i \in 1..Len(parserBindings) :
                                       parserBindings[i].key = found[k].keySequence }) = 1
                   /\ (\A later \in (k + 1)..Len(found) :
                          found[later].keySequence # found[k].keySequence)
                      => MapGet(parserBindings, found[k].keySequence) = found[k]
            /\ Len(parserBindings) =
                   Cardinality({ found[k].keySequence : k \in 1..Len(found) })

\* the lines for M-m f and A-m f, which both normalize to Alt+m f, were parsed
\* in this order with another line between them: the one entry of that key is
\* the binding of the A-m f line
C30_Witness ==
    /\ op = "parse"
    /\ Len(LineBindings(bindingsData)) = 3
    /\ LineBindings(bindingsData)[1].originalKeySequence = <<"M","-","m"," ","f">>
    /\ LineBindings(bindingsData)[3].originalKeySequence = <<"A","-","m"," ","f">>
    /\ Len(parserBindings) = 2
    /\ parserBindings[1].value.originalKeySequence = <<"A","-","m"," ","f">>

----------------------------------------------------------------------------
(* Claims about the log, the export, the key token and the statistics *)

\* a line number of the model as `${lineNumber}` writes it: one decimal digit
Digits(n) == << <<"0","1","2","3","4","5","6","7","8","9">>[n + 1] >>

\* a \bind line the grammar rejects: its trimmed content starts with the
\* keyword and bindRegex does not match it
RejectedLine(line) ==
    /\ StartsWith(Trim(line), <<"\\","b","i","n","d">>)
    /\ bindRegex(Trim(line)) = <<>>

\* C31. Every \bind line that does not match the binding grammar is reported
\* to the logger with the 1-based number of that line in the configuration
\* text: after parse, the log holds a warning whose message carries the number
\* of each such line.
C31_MalformedLineNumber ==
    Parsed =>
        \A n \in 1..Len(Split(bindingsData, NL)) :
            RejectedLine(Split(bindingsData, NL)[n]) =>
                \E w \in 1..Len(parserLog) :
                    /\ parserLog[w].level = "warn"
                    /\ Includes(parserLog[w].message, Digits(n))

\* the sequence-to-binding pairs of a table
Pairs(map) == { map[i] : i \in 1..Len(map) }

\* the unordered conflict pairs of a conflict set
ConflictPairs(descriptions) == { PairOf(d) : d \in descriptions }

\* C32. Round trip: importBindings(exportBindings(T)) leaves the parser with
\* exactly the sequence-to-binding pairs of T, and loading that table into the
\* engine gives the table and the conflict pairs that loading T gives.
C32_RoundTrip ==
    [][ /\ importExported => Pairs(parserBindings') = Pairs(parserBindings)
        /\ pluginLoadBindingsObject =>
               /\ Pairs(bindings') = Pairs(parserBindings)
               /\ ConflictPairs(conflicts') = ConflictPairs(detectConflicts(parserBindings))
      ]_vars

\* the names of the modifiers held during the press, in the order Ctrl, Alt,
\* Shift, Meta
HeldModifiers(event) ==
    LET flags == <<event.ctrlKey, event.altKey, event.shiftKey, event.metaKey>>
        names == << <<"C","t","r","l">>, <<"A","l","t">>, <<"S","h","i","f","t">>, <<"M","e","t","a">> >>
        held  == { i \in 1..4 : flags[i] }
    IN  [ j \in 1..Cardinality(held) |->
            names[CHOOSE i \in held : Cardinality({ k \in held : k < i }) = j - 1] ]

\* the key part of the token by the case rule alone
CaseRuleKey(event) ==
    IF Len(event.key) # 1 THEN event.key
    ELSE IF event.shiftKey /\ IsUpper(event.key[1]) THEN event.key
    ELSE IF ~event.shiftKey /\ IsLower(event.key[1]) THEN event.key
    ELSE <<ToLower(event.key[1])>>

\* the key part of the token: the space bar is named, the case rule otherwise
NamedKey(event) ==
    IF event.key = SP THEN <<"S","p","a","c","e">> ELSE CaseRuleKey(event)

\* the token the press appended, when the history of presses is known
AppendedToken == fed'[Len(fed')]

\* the sequence compiled from the key-spec M-m g S-D
CompiledShiftKey == parse(ModifierFile[1])[1].key

ShiftD(target) ==
    [ctrlKey |-> FALSE, altKey |-> FALSE, shiftKey |-> TRUE, metaKey |-> FALSE,
     key |-> <<"D">>, target |-> target]

\* the presses Alt+m, g, Shift+D spell the compiled sequence and fire it
ShiftStepFires ==
    \A target \in Targets :
        fed = <<tokAltM, tokG>> /\ AcceptedPress(ShiftD(target)) /\ handleKeyDown(ShiftD(target)) =>
            /\ Join(fed', SP) = CompiledShiftKey
            /\ CompiledShiftKey \in TableKeys => emitted' # <<>>

\* C33 as stated. Key token construction: the token is the held modifiers in
\* the order Ctrl, Alt, Shift, Meta followed by the key, joined by `+`; a
\* single-character key stays uppercase only with Shift and an uppercase
\* letter, stays lowercase without Shift and a lowercase letter, and is folded
\* to lowercase otherwise; longer key names pass through unchanged.
C33_AsStated ==
    [][ \A event \in ModifierEvents :
            (/\ fed' # <<>>
             /\ fed' # Stale
             /\ AcceptedPress(event)
             /\ AppendedToken = eventToKeyString(event)
             /\ handleKeyDown(event))
            => AppendedToken = Join(Append(HeldModifiers(event), CaseRuleKey(event)), <<"+">>)
      ]_vars

\* C33. Key token construction: the token is the held modifiers in the order
\* Ctrl, Alt, Shift, Meta followed by the key, joined by `+`; the space bar
\* gives the key name Space; any other single-character key stays uppercase
\* only with Shift and an uppercase letter, stays lowercase without Shift and a
\* lowercase letter, and is folded to lowercase otherwise; longer key names pass
\* through unchanged. The presses Alt+m, g, Shift+D spell `Alt+m g Shift+D`.
C33_KeyToken ==
    [][ /\ \A event \in ModifierEvents :
               (/\ fed' # <<>>
                /\ fed' # Stale
                /\ AcceptedPress(event)
                /\ AppendedToken = eventToKeyString(event)
                /\ handleKeyDown(event))
               => AppendedToken = Join(Append(HeldModifiers(event), NamedKey(event)), <<"+">>)
        /\ ShiftStepFires
      ]_vars

C33_Witness ==
    /\ op = "handleKeyDown"
    /\ fed = <<tokAltM, tokG, <<"S","h","i","f","t","+","D">> >>
    /\ currentSequence = <<>>
    /\ emitted # <<>>
    /\ emitted[1].action.type = "insert"

\* a keydown for a modifier key itself, reported with its own flag set
IsBareModifier(event) ==
    \/ event.key = <<"S","h","i","f","t">> /\ event.shiftKey
    \/ event.key = <<"C","o","n","t","r","o","l">> /\ event.ctrlKey
    \/ event.key = <<"A","l","t">> /\ event.altKey
    \/ event.key = <<"M","e","t","a">> /\ event.metaKey

\* C37. A keydown for a bare modifier key that arrives while the engine is
\* Pending does not abandon the pending sequence: the pending tokens stay as
\* they are, so that the step that carries the modifier can complete it.
C37_BareModifierKeepsPending ==
    [][ \A event \in ModifierEvents :
            handleKeyDown(event) /\ IsBareModifier(event) /\ currentSequence # <<>> =>
                currentSequence' = currentSequence
      ]_vars

\* the entries of the table whose key has n tokens
KeysOfLength(n) == { i \in 1..Len(bindings) : Len(KeyTokens[bindings[i].key]) = n }

\* C34. Statistics invariant: in every reachable state getStatistics reports
\* totalBindings = size of the table, multiStepBindings = number of keys with
\* more than one token, singleStepBindings = number of keys with exactly one
\* token (single + multi = total), conflicts = size of the conflict set, and
\* the current enabled flag and configured timeout.
C34_Statistics ==
    /\ getStatistics.totalBindings = Cardinality(TableKeys)
    /\ getStatistics.singleStepBindings = Cardinality(KeysOfLength(1))
    /\ getStatistics.multiStepBindings =
           Cardinality({ i \in 1..Len(bindings) : Len(KeyTokens[bindings[i].key]) > 1 })
    /\ getStatistics.singleStepBindings + getStatistics.multiStepBindings
           = getStatistics.totalBindings
    /\ getStatistics.conflicts = Cardinality(conflicts)
    /\ getStatistics.enabled = enabled
    /\ getStatistics.sequenceTimeout = sequenceTimeout

C34_Witness ==
    /\ getStatistics.totalBindings = 3
    /\ getStatistics.singleStepBindings = 1
    /\ getStatistics.multiStepBindings = 2
    /\ getStatistics.conflicts = 0
    /\ ~getStatistics.enabled
    /\ getStatistics.sequenceTimeout = 9000

----------------------------------------------------------------------------
(* Claims about the background controller and the plugin of a page *)

\* no operation of the controller is under way and no event is in flight
BackgroundQuiet == tasks = <<>> /\ changes = <<>>

\* C36. Status badge invariant: once every background operation has completed
\* (loadSettings, toggleExtension, loadBindingsFile, updateSettings, a
\* storage-change notification), the badge text agrees with the background
\* state: OFF iff the extension is disabled, ! iff it is enabled and no
\* bindings are loaded, ON iff it is enabled and bindings are loaded.
C36_BadgeAgrees ==
    BackgroundQuiet =>
        /\ badgeText = "OFF" <=> extensionState.enabled # "true"
        /\ badgeText = "!"   <=> extensionState.enabled = "true" /\ ~extensionState.bindingsLoaded
        /\ badgeText = "ON"  <=> extensionState.enabled = "true" /\ extensionState.bindingsLoaded

\* C38. Stored 'disabled' is respected at page start: if the store holds
\* hotkeyEnabled = false when the content script of a page starts, then under
\* every interleaving of the engine's loadSettings, the plugin's initialize
\* and the storage-change notifications, the stored flag remains false, the
\* plugin never becomes active and the engine never emits an action.
C38_DisabledRespected ==
    settings.hotkeyEnabled = "false" =>
        /\ store.hotkeyEnabled = "false"
        /\ ~isActive
        /\ emitted = <<>>

\* C39. Clearing bindings takes effect in the engine: when the page handles
\* a storage change for loadedBindings with no new value (the stored bindings
\* were removed), the engine holds an empty table with no conflicts.
C39_ClearReachesEngine ==
    [][ /\ pluginHandleStorageChange
        /\ Head(changes).changed
        /\ Head(changes).loadedBindings.type = "undefined"
        => bindings' = <<>> /\ conflicts' = {}
      ]_vars

----------------------------------------------------------------------------
(* Claims about several pages on one settings store *)

\* every page has started, no event is in flight, and the timeout and the
\* enabled flag of every page equal the stored values
Settled ==
    \A i \in Pages :
        /\ pages[i].settingsPc = "done"
        /\ pages[i].pluginPc = "ready"
        /\ pages[i].inbox = <<>>
        /\ pages[i].sequenceTimeout = store.sequenceTimeout
        /\ Flag(pages[i].enabled) = store.hotkeyEnabled

\* a continuation or an event is waiting
Pending ==
    \E i \in Pages :
        \/ pages[i].settingsPc = "awaiting"
        \/ pages[i].pluginPc = "awaiting"
        \/ pages[i].inbox # <<>>

\* the run is cut short: what is waiting cannot run because a queue of
\* MaxInbox events has no room for the event it would add
Cut == Pending /\ ~ENABLED InstancesNext

\* C40. Settings write-back quiesces: after a single external change of
\* sequenceTimeout or hotkeyEnabled in the store, with the pages reacting to
\* the storage-change notifications by setSequenceTimeout, activate and
\* deactivate, the system eventually reaches a state where no further
\* value-changing write occurs and the timeout and the enabled flag of every
\* page equal the stored values (a settled state has nothing waiting, so it
\* is never left; runs that meet the bound on the queues are left out).
C40_WriteBackQuiesces == changeMade ~> (Settled \/ Cut)

====
